---- MODULE Spec2Model ----
(***************************************************************************)
(* Gdk9 attunement planning core: the checksum engine (gdk9/energy.py),    *)
(* the insertion planner, the edit planner and the plan appliers           *)
(* (gdk9/optimize.py), as pure operators, and the calls of them as a state *)
(* machine over bounded inputs.                                            *)
(*                                                                         *)
(* Conventions.  A Python str is a sequence of one-character strings.      *)
(* Optional[X] is a sequence of length at most one: None is <<>>, a value  *)
(* x is <<x>>.  Python indices are 0-based; a position `pos` of an EditOp  *)
(* keeps its 0-based value, and indices into `allowed` (the BFS symbol     *)
(* indices) are kept 1-based, as TLA+ sequences are.  A raised exception   *)
(* is the record Raised(msg).                                              *)
(***************************************************************************)
EXTENDS Integers, Sequences, FiniteSets, TLC

VARIABLES
  pc,               \* "start" | "called" | "bfs" | "dp" | "walk" | "planned" | "planned again" | "applied" | "reapplied" | "returned"
  text,             \* the input text
  target,           \* the requested digital root
  principle,        \* the Principle in force
  call,             \* the remaining arguments of the planner call that was made
  plan,             \* what the planner returned: a Plan, an EditPlan, or Raised
  spread,           \* the spread argument of apply_plan
  out               \* what the applier returned: a text, or Raised

vars == <<pc, text, target, principle, call, plan, spread, out>>

None == <<>>
Some(x) == <<x>>

Raised(msg) == [kind |-> "raised", error |-> msg]
Returned(v) == [kind |-> "returned", value |-> v]
NotYet == [kind |-> "pending"]

(***************************************************************************)
(* Characters.  The code points and the classes of the characters the      *)
(* model draws texts, symbols and replacements from.                       *)
(***************************************************************************)
\* The code points, as a table.
OrdTable ==
  "\t" :> 9 @@
  " " :> 32 @@ "!" :> 33 @@ "*" :> 42 @@ "+" :> 43 @@
  "," :> 44 @@ "." :> 46 @@ "0" :> 48 @@ "3" :> 51 @@ "9" :> 57 @@
  ";" :> 59 @@ "?" :> 63 @@ "A" :> 65 @@ "B" :> 66 @@ "C" :> 67 @@ "Z" :> 90 @@
  "a" :> 97 @@ "b" :> 98 @@ "c" :> 99 @@ "z" :> 122 @@ "~" :> 126 @@
  "²" :> 178 @@ "É" :> 201 @@ "ß" :> 223 @@ "é" :> 233

ord(ch) == OrdTable[ch]

isspace(ch) == ch \in {" ", "\t"}
isupper(ch) == ord(ch) \in 65..90 \cup {201}
islower(ch) == ord(ch) \in 97..122 \cup {223, 233}
isalpha(ch) == isupper(ch) \/ islower(ch)
\* str.isdigit() holds of the decimal digits and of digits such as the
\* superscript two; int() reads the decimal digits only.
isdecimal(ch) == ord(ch) \in 48..57
isdigit(ch) == isdecimal(ch) \/ ord(ch) = 178
int(ch) == ord(ch) - 48

\* upper, lower and swapcase of a character whose case mapping is one
\* character.
upper(ch) ==
  CASE ch = "a" -> "A" [] ch = "b" -> "B" [] ch = "c" -> "C" [] ch = "z" -> "Z"
    [] ch = "é" -> "É" [] OTHER -> ch
lower(ch) ==
  CASE ch = "A" -> "a" [] ch = "B" -> "b" [] ch = "C" -> "c" [] ch = "Z" -> "z"
    [] ch = "É" -> "é" [] OTHER -> ch
swapcase(ch) == IF isupper(ch) THEN lower(ch) ELSE upper(ch)

\* str.upper() as a str: the upper case of the sharp s is two characters.
str_upper(ch) == IF ch = "ß" THEN <<"S", "S">> ELSE <<upper(ch)>>

abs(n) == IF n < 0 THEN -n ELSE n

(***************************************************************************)
(* gdk9/principles.py                                                      *)
(***************************************************************************)
DefaultSymbolEnergy ==
  "." :> 1 @@ "," :> 2 @@ "!" :> 3 @@ "?" :> 4 @@ ":" :> 5 @@ ";" :> 6 @@
  "-" :> 7 @@ "_" :> 8 @@ "*" :> 9 @@ "#" :> 5 @@ "+" :> 4 @@ "=" :> 6 @@
  "@" :> 8 @@ "$" :> 7 @@ "%" :> 5 @@ "&" :> 9 @@ "/" :> 3 @@ "\\" :> 3 @@
  "(" :> 2 @@ ")" :> 2 @@ "[" :> 2 @@ "]" :> 2 @@ "{" :> 2 @@ "}" :> 2 @@
  "<" :> 1 @@ ">" :> 1 @@ "|" :> 1 @@ "~" :> 9 @@ "^" :> 8

DefaultWeights == [letter |-> 1, digit |-> 1, symbol |-> 1]

\* Principle.default(): the built-in "Ninefold Grid".
DefaultPrinciple ==
  [ symbol_energy |-> DefaultSymbolEnergy,
    letter_mode |-> "a1z26",
    normalize_zero_to_nine |-> TRUE,
    weights |-> DefaultWeights ]

\* weights.get(key, 1)
weights_get(p, key) ==
  IF key \in DOMAIN p.weights THEN p.weights[key] ELSE 1

(***************************************************************************)
(* gdk9/energy.py                                                          *)
(***************************************************************************)
\* Faulty variant: return n % 9 for every n but 0.
digital_root_plain_mod(n, zero_to_nine) ==
  LET m == abs(n) IN
  IF m = 0 THEN (IF zero_to_nine THEN 9 ELSE 0) ELSE m % 9

digital_root(n, zero_to_nine) ==
  LET m == abs(n) IN
  IF m = 0 THEN (IF zero_to_nine THEN 9 ELSE 0)
  ELSE IF m % 9 = 0 THEN 9 ELSE m % 9

letter_value(ch) ==
  LET c == upper(ch) IN
  IF ord(c) \in 65..90 THEN ord(c) - 65 + 1 ELSE ord(c)

char_energy(ch, p) ==
  LET z == p.normalize_zero_to_nine IN
  IF isspace(ch) THEN 0
  ELSE IF isalpha(ch) THEN
    LET base == IF p.letter_mode = "a1z26" THEN letter_value(ch) ELSE ord(ch)
        e == digital_root(base, z)
    IN digital_root(e * weights_get(p, "letter"), z)
  ELSE IF isdigit(ch) THEN
    LET e == digital_root(int(ch), z)
    IN digital_root(e * weights_get(p, "digit"), z)
  ELSE IF ch \in DOMAIN p.symbol_energy THEN
    LET e == digital_root(p.symbol_energy[ch], z)
    IN digital_root(e * weights_get(p, "symbol"), z)
  ELSE
    LET e == digital_root(ord(ch), z)
    IN digital_root(e * weights_get(p, "symbol"), z)

\* A call of char_energy: the energy, or the exception of ord() on the
\* two-character upper case of a letter (letter_value) or of int() on a digit
\* that is not decimal.
char_energy_call(ch, p) ==
  IF isspace(ch) THEN Returned(0)
  ELSE IF isalpha(ch) THEN
    IF p.letter_mode = "a1z26" /\ Len(str_upper(ch)) # 1
    THEN Raised("TypeError: ord() expected a character, but string of length 2 found")
    ELSE Returned(char_energy(ch, p))
  ELSE IF isdigit(ch) /\ ~isdecimal(ch)
  THEN Raised("ValueError: invalid literal for int() with base 10")
  ELSE Returned(char_energy(ch, p))

RECURSIVE sum_energy(_, _)
sum_energy(s, p) ==
  IF s = <<>> THEN 0 ELSE char_energy(Head(s), p) + sum_energy(Tail(s), p)

\* string_energy returns the pair (total, digital root).
string_energy(s, p) ==
  LET total == sum_energy(s, p)
  IN <<total, digital_root(total, p.normalize_zero_to_nine)>>

(***************************************************************************)
(* gdk9/optimize.py: the insertion planner                                 *)
(***************************************************************************)
Plan(method, tgt, steps, total_before, dr_before, total_after, dr_after) ==
  [ kind |-> "Plan", method |-> method, target |-> tgt, steps |-> steps,
    total_before |-> total_before, dr_before |-> dr_before,
    total_after |-> total_after, dr_after |-> dr_after ]

_residue(n) == n % 9

\* Faulty variant: the gap taken from the target to the total.
_target_residue_swapped(total, tgt) == (_residue(total) - (tgt % 9)) % 9

_target_residue(total, tgt) ==
  LET cur_r == _residue(total)
      tgt_r == tgt % 9
  IN (tgt_r - cur_r) % 9

\* The residues of the allowed (symbol, energy) pairs, in their order.
residues_of(allowed) == [i \in 1..Len(allowed) |-> allowed[i][2] % 9]

\* The walk along the parent pointers from `at` back to 0, reversed: the
\* symbol indices in the order in which they were taken.
RECURSIVE reconstruct_seq(_, _)
reconstruct_seq(parent, at) ==
  IF at = 0 THEN <<>>
  ELSE reconstruct_seq(parent, parent[at][1]) \o <<parent[at][2]>>

\* Faulty variant: q.pop(), the queue used as a stack.
pop_right(q) == [cur |-> q[Len(q)], rest |-> SubSeq(q, 1, Len(q) - 1)]

\* Faulty variant: the end the queue is popped from depends on whether a plan
\* was made before, as if the queue's discipline were kept between calls.
pop_by_history(q) ==
  IF pc = "planned"
  THEN [cur |-> q[Len(q)], rest |-> SubSeq(q, 1, Len(q) - 1)]
  ELSE [cur |-> Head(q), rest |-> Tail(q)]

\* q.popleft(): the residue taken from the queue and the queue that is left.
popleft(q) == [cur |-> Head(q), rest |-> Tail(q)]

\* Faulty variant: the test left out, every neighbour taken as new.
always_new(parent, nxt) == TRUE

\* nxt not in parent
not_in_parent(parent, nxt) == nxt \notin DOMAIN parent

\* The for-loop over the allowed residues for one dequeued residue `cur` at
\* depth d, from index idx on.  s holds parent, depth and the queue q.
RECURSIVE bfs_scan(_, _, _, _, _, _)
bfs_scan(residues, delta_res, cur, d, idx, s) ==
  IF idx > Len(residues) THEN [found |-> FALSE, s |-> s, seq |-> <<>>]
  ELSE
    LET nxt == (cur + residues[idx]) % 9 IN
    IF not_in_parent(s.parent, nxt) THEN
      LET parent2 == s.parent @@ (nxt :> <<cur, idx>>)
          depth2 == s.depth @@ (nxt :> d + 1)
      IN IF nxt = delta_res
         THEN [ found |-> TRUE,
                s |-> [parent |-> parent2, depth |-> depth2, q |-> s.q],
                seq |-> reconstruct_seq(parent2, nxt) ]
         ELSE bfs_scan(residues, delta_res, cur, d, idx + 1,
                       [parent |-> parent2, depth |-> depth2, q |-> Append(s.q, nxt)])
    ELSE bfs_scan(residues, delta_res, cur, d, idx + 1, s)

\* Faulty variant: d > max_steps, one step too many.
depth_exceeded(d, max_steps) == d > max_steps

\* Faulty variant: d + 1 >= max_steps, one step too few.
depth_nearly_exhausted(d, max_steps) == d + 1 >= max_steps

\* d >= max_steps: a residue at the depth of the budget is not expanded.
depth_exhausted(d, max_steps) == d >= max_steps

\* The while-loop over the queue.
RECURSIVE bfs_loop(_, _, _, _)
bfs_loop(residues, delta_res, max_steps, s) ==
  IF s.q = <<>> THEN None
  ELSE
    LET taken == popleft(s.q)
        cur == taken.cur
        s1 == [s EXCEPT !.q = taken.rest]
        d == s.depth[cur]
    IN IF depth_exhausted(d, max_steps) THEN bfs_loop(residues, delta_res, max_steps, s1)
       ELSE LET r == bfs_scan(residues, delta_res, cur, d, 1, s1)
            IN IF r.found THEN Some(r.seq)
               ELSE bfs_loop(residues, delta_res, max_steps, r.s)

\* Faulty variant: return [] in place of return None when all residues are 0.
minimal_residue_combo_empty_for_none(delta_res, allowed, max_steps) ==
  LET residues == residues_of(allowed) IN
  IF delta_res = 0 THEN Some(<<>>)
  ELSE IF \A i \in 1..Len(residues) : residues[i] = 0 THEN Some(<<>>)
  ELSE bfs_loop(residues, delta_res, max_steps,
                [ parent |-> (0 :> <<-1, -1>>), depth |-> (0 :> 0), q |-> <<0>> ])

\* Optional[List[int]]: None, or Some(the sequence of indices into allowed).
minimal_residue_combo(delta_res, allowed, max_steps) ==
  LET residues == residues_of(allowed) IN
  IF delta_res = 0 THEN Some(<<>>)
  ELSE IF \A i \in 1..Len(residues) : residues[i] = 0 THEN None
  ELSE bfs_loop(residues, delta_res, max_steps,
                [ parent |-> (0 :> <<-1, -1>>), depth |-> (0 :> 0), q |-> <<0>> ])

\* Faulty variant: counts[i] = 1 in place of counts[i] = counts.get(i, 0) + 1.
count_of_capped(seq, i) == IF \E k \in 1..Len(seq) : seq[k] = i THEN 1 ELSE 0

\* counts[i] after the loop over seq (0 when i is not in counts).
count_of(seq, i) == Cardinality({k \in 1..Len(seq) : seq[k] = i})

RECURSIVE steps_from(_, _, _)
steps_from(seq, allowed, i) ==
  IF i > Len(allowed) THEN <<>>
  ELSE (IF count_of(seq, i) > 0 THEN <<<<allowed[i][1], count_of(seq, i)>>>> ELSE <<>>)
       \o steps_from(seq, allowed, i + 1)

build_steps_from_seq(seq, allowed) == steps_from(seq, allowed, 1)

\* Faulty variant: the lower end of the range left untested.
target_at_most_nine(tgt) == tgt <= 9

\* 1 <= target <= 9
target_in_range(tgt) == 1 <= tgt /\ tgt <= 9

\* max_steps: int = 64
DefaultMaxSteps == 64

\* ".!?,*+"
DefaultAllowedSymbols == <<".", "!", "?", ",", "*", "+">>

\* The (symbol, energy) pairs of the allowed symbols, zero-energy ones dropped.
RECURSIVE allowed_pairs(_, _)
allowed_pairs(symbols, p) ==
  IF symbols = <<>> THEN <<>>
  ELSE LET e == char_energy(Head(symbols), p)
       IN (IF e = 0 THEN <<>> ELSE <<<<Head(symbols), e>>>>)
          \o allowed_pairs(Tail(symbols), p)

RECURSIVE added_energy(_, _)
added_energy(steps, p) ==
  IF steps = <<>> THEN 0
  ELSE Head(steps)[2] * char_energy(Head(steps)[1], p) + added_energy(Tail(steps), p)

optimize_attunement(txt, tgt, p, allowed_symbols, method, max_steps) ==
  LET se == string_energy(txt, p)
      total == se[1]
      dr == se[2]
  IN
  IF ~target_in_range(tgt) THEN Raised("Target energy must be 1..9")
  ELSE IF dr = tgt THEN Plan(method, tgt, <<>>, total, dr, total, dr)
  ELSE
    LET symbols == IF allowed_symbols = <<>> THEN DefaultAllowedSymbols
                   ELSE allowed_symbols
        allowed == allowed_pairs(symbols, p)
    IN
    IF allowed = <<>> THEN Raised("No valid allowed symbols; provide a non-empty set.")
    ELSE
      LET delta_res == _target_residue(total, tgt)
          seq == minimal_residue_combo(delta_res, allowed, max_steps)
      IN
      IF seq = None
      THEN Raised("No feasible combination to reach target with given symbols.")
      ELSE
        LET steps == build_steps_from_seq(seq[1], allowed)
            added == added_energy(steps, p)
            new_total == total + added
            new_dr == digital_root(new_total, p.normalize_zero_to_nine)
        IN Plan(method, tgt, steps, total, dr, new_total, new_dr)

(***************************************************************************)
(* gdk9/optimize.py: apply_plan                                            *)
(***************************************************************************)
\* sym * count
RECURSIVE repeat(_, _)
repeat(sym, count) == IF count <= 0 THEN <<>> ELSE <<sym>> \o repeat(sym, count - 1)

\* "".join(sym * count for sym, count in steps)
RECURSIVE flatten_steps(_)
flatten_steps(steps) ==
  IF steps = <<>> THEN <<>>
  ELSE repeat(Head(steps)[1], Head(steps)[2]) \o flatten_steps(Tail(steps))

max(a, b) == IF a >= b THEN a ELSE b

\* Faulty variant: the spread argument ignored.
interval_without_spread(spr, len_chars, n) == max(1, len_chars \div (n + 1))

\* spread or max(1, len(chars) // (n + 1)): None and 0 are falsy.
interval_of(spr, len_chars, n) ==
  IF spr # None /\ spr[1] # 0 THEN spr[1] ELSE max(1, len_chars \div (n + 1))

\* (i + 1) % interval == 0.  Python's % takes the sign of the divisor, so for a
\* negative interval the remainder is 0 exactly when |interval| divides i + 1.
hits_interval(i, interval) == (i + 1) % abs(interval) = 0

\* Faulty variant: the trailing while-loop left out.
RECURSIVE intersperse_no_tail(_, _, _, _, _)
intersperse_no_tail(chars, inserts, interval, i, i_ins) ==
  IF i >= Len(chars) THEN <<>>
  ELSE IF hits_interval(i, interval) /\ i_ins < Len(inserts)
       THEN <<chars[i + 1], inserts[i_ins + 1]>>
            \o intersperse_no_tail(chars, inserts, interval, i + 1, i_ins + 1)
       ELSE <<chars[i + 1]>>
            \o intersperse_no_tail(chars, inserts, interval, i + 1, i_ins)

\* The enumerate loop of intersperse from 0-based index i, with i_ins symbols
\* already placed, followed by the trailing while-loop.
RECURSIVE intersperse_from(_, _, _, _, _)
intersperse_from(chars, inserts, interval, i, i_ins) ==
  IF i >= Len(chars) THEN SubSeq(inserts, i_ins + 1, Len(inserts))
  ELSE IF hits_interval(i, interval) /\ i_ins < Len(inserts)
       THEN <<chars[i + 1], inserts[i_ins + 1]>>
            \o intersperse_from(chars, inserts, interval, i + 1, i_ins + 1)
       ELSE <<chars[i + 1]>>
            \o intersperse_from(chars, inserts, interval, i + 1, i_ins)

\* Faulty variant: the early return for a plan without steps left out.
apply_plan_no_early_return(txt, pl, spr) ==
  IF pl.method = "append" THEN Returned(txt \o flatten_steps(pl.steps))
  ELSE IF pl.method = "prepend" THEN Returned(flatten_steps(pl.steps) \o txt)
  ELSE IF pl.method = "intersperse" THEN
    LET inserts == flatten_steps(pl.steps)
        n == Len(inserts)
    IN IF txt = <<>> THEN Returned(inserts)
       ELSE IF n = 0 THEN Returned(txt)
       ELSE Returned(intersperse_from(txt, inserts,
                                      interval_of(spr, Len(txt), n), 0, 0))
  ELSE Raised("Unsupported method")

\* The result is Returned(the new text), or Raised for an unknown method.
apply_plan(txt, pl, spr) ==
  IF pl.steps = <<>> THEN Returned(txt)
  ELSE IF pl.method = "append" THEN Returned(txt \o flatten_steps(pl.steps))
  ELSE IF pl.method = "prepend" THEN Returned(flatten_steps(pl.steps) \o txt)
  ELSE IF pl.method = "intersperse" THEN
    LET inserts == flatten_steps(pl.steps)
        n == Len(inserts)
    IN IF txt = <<>> THEN Returned(inserts)
       ELSE IF n = 0 THEN Returned(txt)
       ELSE Returned(intersperse_from(txt, inserts,
                                      interval_of(spr, Len(txt), n), 0, 0))
  ELSE Raised("Unsupported method")

(***************************************************************************)
(* gdk9/optimize.py: EditOp, EditPlan and apply_edit_plan                  *)
(***************************************************************************)
\* EditOp(kind, pos, ch=None, count=1); ch is Optional[str].
EditOp(kind, pos, ch, count) == [kind |-> kind, pos |-> pos, ch |-> ch, count |-> count]

EditPlan(method, tgt, ops, total_before, dr_before, total_after, dr_after) ==
  [ kind |-> "EditPlan", method |-> method, target |-> tgt, ops |-> ops,
    total_before |-> total_before, dr_before |-> dr_before,
    total_after |-> total_after, dr_after |-> dr_after ]

\* [op for op in ops if op.kind == kind]
ops_of_kind(ops, kind) == SelectSeq(ops, LAMBDA op : op.kind = kind)

\* One insertion of a stable sort by pos, descending: op goes behind every
\* element whose pos is at least its own.
RECURSIVE insert_desc(_, _)
insert_desc(sorted, op) ==
  IF sorted = <<>> THEN <<op>>
  ELSE IF Head(sorted).pos >= op.pos THEN <<Head(sorted)>> \o insert_desc(Tail(sorted), op)
  ELSE <<op>> \o sorted

\* One insertion of a stable sort by pos, ascending.
RECURSIVE insert_asc(_, _)
insert_asc(sorted, op) ==
  IF sorted = <<>> THEN <<op>>
  ELSE IF Head(sorted).pos <= op.pos THEN <<Head(sorted)>> \o insert_asc(Tail(sorted), op)
  ELSE <<op>> \o sorted

\* sorted(ops, key=lambda o: o.pos, reverse=True): stable
RECURSIVE sorted_desc(_)
sorted_desc(ops) ==
  IF ops = <<>> THEN <<>>
  ELSE insert_desc(sorted_desc(SubSeq(ops, 1, Len(ops) - 1)), ops[Len(ops)])

\* Faulty variant: the insertions taken in list order.
unsorted(ops) == ops

\* sorted(ops, key=lambda o: o.pos): stable
RECURSIVE sorted_asc(_)
sorted_asc(ops) ==
  IF ops = <<>> THEN <<>>
  ELSE insert_asc(sorted_asc(SubSeq(ops, 1, Len(ops) - 1)), ops[Len(ops)])

\* The deletion loop over the sorted deletions.
RECURSIVE apply_dels(_, _)
apply_dels(chars, dels) ==
  IF dels = <<>> THEN chars
  ELSE LET pos == Head(dels).pos
           chars2 == IF 0 <= pos /\ pos < Len(chars)
                     THEN SubSeq(chars, 1, pos) \o SubSeq(chars, pos + 2, Len(chars))
                     ELSE chars
       IN apply_dels(chars2, Tail(dels))

\* The substitution loop, in list order.
RECURSIVE apply_subs(_, _)
apply_subs(chars, subs) ==
  IF subs = <<>> THEN chars
  ELSE LET op == Head(subs)
           chars2 == IF 0 <= op.pos /\ op.pos < Len(chars) /\ op.ch # None
                     THEN [chars EXCEPT ![op.pos + 1] = op.ch[1]]
                     ELSE chars
       IN apply_subs(chars2, Tail(subs))

\* The insertion loop over the sorted insertions.
RECURSIVE apply_ins(_, _)
apply_ins(chars, ins) ==
  IF ins = <<>> THEN chars
  ELSE LET op == Head(ins)
           insert_str == IF op.ch = None THEN <<>>
                         ELSE repeat(op.ch[1], max(1, op.count))
           chars2 == IF 0 <= op.pos /\ op.pos <= Len(chars)
                     THEN SubSeq(chars, 1, op.pos) \o insert_str
                          \o SubSeq(chars, op.pos + 1, Len(chars))
                     ELSE chars
       IN apply_ins(chars2, Tail(ins))

\* apply_edit_plan(text, plan), given the plan's ops.
apply_edit_plan(txt, ops) ==
  IF ops = <<>> THEN txt
  ELSE
    LET chars1 == apply_dels(txt, sorted_desc(ops_of_kind(ops, "del")))
        chars2 == apply_subs(chars1, ops_of_kind(ops, "sub"))
    IN apply_ins(chars2, sorted_asc(ops_of_kind(ops, "ins")))

(***************************************************************************)
(* gdk9/optimize.py: the edit planner                                      *)
(***************************************************************************)
\* Faulty variant: no delta is ever taken as seen.
never_seen(seen, r) == FALSE

\* `seen` is a dict in insertion order: a sequence of <<r, repl>> with
\* distinct r.  seen_has is `r in seen`.
seen_has(seen, r) == \E k \in 1..Len(seen) : seen[k][1] = r

\* The loop over the catalog replacements of one character.
RECURSIVE seen_from_catalog(_, _, _, _)
seen_from_catalog(seen, repls, cur_e, p) ==
  IF repls = <<>> THEN seen
  ELSE LET repl == Head(repls)
           new_e == char_energy(repl, p)
           r == (new_e - cur_e) % 9
       IN seen_from_catalog(IF seen_has(seen, r) THEN seen
                            ELSE Append(seen, <<r, repl>>),
                            Tail(repls), cur_e, p)

\* The case-change option for letters.
seen_with_swapcase(seen, ch, cur_e, p) ==
  IF isalpha(ch) /\ swapcase(ch) # ch
  THEN LET alt == swapcase(ch)
           r == (char_energy(alt, p) - cur_e) % 9
       IN IF seen_has(seen, r) THEN seen ELSE Append(seen, <<r, alt>>)
  ELSE seen

\* Faulty variant: the energy of the deleted character taken as a gain.
delete_delta_unsigned(cur_e) == cur_e % 9

\* rdel = (-cur_e) % 9
delete_delta(cur_e) == (-cur_e) % 9

\* pos_deltas[i]: the options (r, repl) of the character ch; repl is
\* Optional[str], None for a deletion.
pos_options(ch, p, subs, allow_delete) ==
  LET cur_e == char_energy(ch, p)
      seen1 == IF DOMAIN subs # {} /\ ch \in DOMAIN subs
               THEN seen_from_catalog(<<>>, subs[ch], cur_e, p)
               ELSE <<>>
      seen2 == seen_with_swapcase(seen1, ch, cur_e, p)
      nonzero == SelectSeq(seen2, LAMBDA sr : sr[1] # 0)
      substitutions == [k \in 1..Len(nonzero) |-> <<nonzero[k][1], Some(nonzero[k][2])>>]
      rdel == delete_delta(cur_e)
  IN substitutions \o (IF allow_delete /\ rdel # 0 THEN <<<<rdel, None>>>> ELSE <<>>)

pos_deltas_of(txt, p, subs, allow_delete) ==
  [i \in 1..Len(txt) |-> pos_options(txt[i], p, subs, allow_delete)]

\* `best` is a dict in insertion order, residue -> (count, prev_residue,
\* (pos, r, repl)): keys is the order of the keys, val the mapping.
best_init == [keys |-> <<0>>, val |-> (0 :> <<0, -1, <<-1, 0, None>>>>)]

\* Faulty variant: an entry, once stored, is never improved.
dp_first_wins(new_best, nr, nc) == nr \notin DOMAIN new_best.val

\* Faulty variant: a transition with the same count replaces the entry.
dp_improves_or_ties(new_best, nr, nc) ==
  nr \notin DOMAIN new_best.val \/ nc <= new_best.val[nr][1]

\* if nr not in new_best or nc < new_best[nr][0]
dp_improves(new_best, nr, nc) ==
  nr \notin DOMAIN new_best.val \/ nc < new_best.val[nr][1]

\* new_best[nr] = entry
dp_store(new_best, nr, entry) ==
  IF nr \in DOMAIN new_best.val
  THEN [new_best EXCEPT !.val[nr] = entry]
  ELSE [keys |-> Append(new_best.keys, nr), val |-> new_best.val @@ (nr :> entry)]

\* The loop over the options of position i (0-based) for the residue res.
RECURSIVE dp_options(_, _, _, _, _, _, _)
dp_options(new_best, res, cnt, opts, k, i, max_edits) ==
  IF k > Len(opts) THEN new_best
  ELSE LET r == opts[k][1]
           repl == opts[k][2]
           nr == (res + r) % 9
           nc == cnt + 1
       IN IF nc > max_edits
          THEN dp_options(new_best, res, cnt, opts, k + 1, i, max_edits)
          ELSE dp_options(IF dp_improves(new_best, nr, nc)
                          THEN dp_store(new_best, nr, <<nc, res, <<i, r, repl>>>>)
                          ELSE new_best,
                          res, cnt, opts, k + 1, i, max_edits)

\* The loop over best.items() at position i, from the j-th key on.
RECURSIVE dp_residues(_, _, _, _, _, _)
dp_residues(best, new_best, j, opts, i, max_edits) ==
  IF j > Len(best.keys) THEN new_best
  ELSE LET res == best.keys[j]
           cnt == best.val[res][1]
       IN dp_residues(best, dp_options(new_best, res, cnt, opts, 1, i, max_edits),
                      j + 1, opts, i, max_edits)

\* The loop over the positions i = 0 .. n-1.
RECURSIVE dp_positions(_, _, _, _)
dp_positions(best, pos_deltas, i, max_edits) ==
  IF i >= Len(pos_deltas) THEN best
  ELSE dp_positions(dp_residues(best, best, 1, pos_deltas[i + 1], i, max_edits),
                    pos_deltas, i + 1, max_edits)

\* The walk along the backpointers from cur to residue 0: the operations in
\* the order in which the walk appends them.
RECURSIVE reconstruct_ops(_, _)
reconstruct_ops(best, cur) ==
  IF cur = 0 THEN <<>>
  ELSE LET entry == best.val[cur]
           prev == entry[2]
           pos == entry[3][1]
           repl == entry[3][3]
           op == IF repl = None THEN EditOp("del", pos, None, 1)
                 ELSE EditOp("sub", pos, repl, 1)
       IN (IF pos >= 0 THEN <<op>> ELSE <<>>) \o reconstruct_ops(best, prev)

\* list(reversed(ops))
reversed(s) == [k \in 1..Len(s) |-> s[Len(s) + 1 - k]]

\* Faulty variant: the insertions placed at position 0.
ins_ops_at_start(steps, at) ==
  [k \in 1..Len(steps) |-> EditOp("ins", 0, Some(steps[k][1]), steps[k][2])]

\* The insert operations of the fallback, one per step of the append plan.
ins_ops_of(steps, at) ==
  [k \in 1..Len(steps) |-> EditOp("ins", at, Some(steps[k][1]), steps[k][2])]

\* return EditPlan('edit', target, ops, total, dr, new_total, new_dr), where
\* se2 is (new_total, new_dr).
edit_plan_after(tgt, ops, total, dr, se2) ==
  EditPlan("edit", tgt, ops, total, dr, se2[1], se2[2])

\* out = apply_edit_plan(text, EditPlan('edit', target, ops, ...)), then
\* new_total, new_dr = string_energy(out, principle) and the return.
edit_plan_of(txt, tgt, p, ops, total, dr) ==
  edit_plan_after(tgt, ops, total, dr,
                  string_energy(apply_edit_plan(txt, ops), p))

\* The insertion-only fallback once append_plan is made: an error of the
\* append planner propagates, a plan becomes insertions at len(text).
fallback_plan(txt, tgt, p, append_plan, total, dr) ==
  IF append_plan.kind = "raised" THEN append_plan
  ELSE edit_plan_of(txt, tgt, p, ins_ops_of(append_plan.steps, Len(txt)),
                    total, dr)

\* The part after the dynamic programme: the fallback or the error when
\* delta_res is not in best, the reconstruction otherwise.
plan_from_best(txt, tgt, p, allowed_inserts, best, delta_res, total, dr) ==
  IF delta_res \notin DOMAIN best.val THEN
    IF allowed_inserts # <<>> THEN
      fallback_plan(txt, tgt, p,
                    optimize_attunement(txt, tgt, p, allowed_inserts,
                                        "append", DefaultMaxSteps),
                    total, dr)
    ELSE Raised("No feasible substitution/deletion plan to reach target.")
  ELSE edit_plan_of(txt, tgt, p, reversed(reconstruct_ops(best, delta_res)),
                    total, dr)

\* The part after total, dr = string_energy(text, principle).
substitution_from(txt, tgt, p, subs, allow_delete, allowed_inserts, max_edits, total, dr) ==
  IF ~target_in_range(tgt) THEN Raised("Target energy must be 1..9")
  ELSE IF dr = tgt THEN EditPlan("substitute", tgt, <<>>, total, dr, total, dr)
  ELSE plan_from_best(txt, tgt, p, allowed_inserts,
                      dp_positions(best_init,
                                   pos_deltas_of(txt, p, subs, allow_delete),
                                   0, max_edits),
                      _target_residue(total, tgt), total, dr)

optimize_substitution(txt, tgt, p, subs, allow_delete, allowed_inserts, max_edits) ==
  substitution_from(txt, tgt, p, subs, allow_delete, allowed_inserts, max_edits,
                    string_energy(txt, p)[1], string_energy(txt, p)[2])

(***************************************************************************)
(* The inputs the calls are made with.                                     *)
(***************************************************************************)
MaxLen == 4

\* All strings over `alphabet` of length at most n.
Texts(alphabet, n) == UNION {[1..k -> alphabet] : k \in 0..n}

\* Default energies 1 and 9; "0" has energy 0 without zero-to-nine.
TextChars == {"a", "0"}

Targets == 1..9

\* Principle(..., normalize_zero_to_nine=False)
NoNormPrinciple == [DefaultPrinciple EXCEPT !.normalize_zero_to_nine = FALSE]

Principles == {DefaultPrinciple, NoNormPrinciple}

\* allowed_symbols: absent, whitespace only, residue 0 only, residue 3 only,
\* residues {6, 3}, a generator alone, mixes in both orders, and two symbols
\* of energy 9.
AllowedChoices ==
  { <<>>, <<" ">>, <<"*">>, <<"!">>, <<";", "!">>, <<",">>,
    <<".", "?">>, <<"?", ".">>, <<"0", "+">>, <<"*", "0">> }

\* The three methods apply_plan knows, and one it does not.
SupportedMethods == {"append", "prepend", "intersperse"}
Methods == SupportedMethods \cup {"replace"}

MaxStepsChoices == {0, 2, DefaultMaxSteps}

\* spread: Optional[int]
Spreads == {None, Some(0), Some(1), Some(2), Some(-2)}

(***************************************************************************)
(* The calls.                                                              *)
(***************************************************************************)
Init ==
  /\ pc = "start"
  /\ text \in Texts(TextChars, MaxLen)
  /\ target \in Targets
  /\ principle \in Principles
  /\ call = NotYet
  /\ plan = NotYet
  /\ spread = None
  /\ out = NotYet

\* plan = optimize_attunement(text, target, principle, allowed_symbols, method, max_steps)
CallOptimizeAttunement ==
  /\ pc = "start"
  /\ \E allowed_symbols \in AllowedChoices, method \in Methods,
        max_steps \in MaxStepsChoices :
       /\ call' = [ fn |-> "optimize_attunement", allowed_symbols |-> allowed_symbols,
                    method |-> method, max_steps |-> max_steps ]
       /\ plan' = optimize_attunement(text, target, principle, allowed_symbols,
                                      method, max_steps)
  /\ pc' = "planned"
  /\ UNCHANGED <<text, target, principle, spread, out>>

\* out = apply_plan(text, plan, spread)
CallApplyPlan ==
  /\ pc = "planned"
  /\ plan.kind = "Plan"
  /\ \E spr \in Spreads :
       /\ spread' = spr
       /\ out' = apply_plan(text, plan, spr)
  /\ pc' = "applied"
  /\ UNCHANGED <<text, target, principle, call, plan>>

Next == CallOptimizeAttunement \/ CallApplyPlan

Spec == Init /\ [][Next]_vars

(***************************************************************************)
(* The calls of the edit planner.                                          *)
(***************************************************************************)
MaxEditLen == 3

\* Default energies 1, 2 and 3; in codepoint mode "a" is 7 and "A" is 2.
EditChars == {"a", "b", "!"}

\* Principle(..., letter_mode="codepoint")
CodepointPrinciple == [DefaultPrinciple EXCEPT !.letter_mode = "codepoint"]

EditPrinciples == {DefaultPrinciple, NoNormPrinciple, CodepointPrinciple}

\* subs: no catalog; a catalog with two candidates of the same delta; a
\* catalog with a zero-delta candidate.
SubsChoices ==
  { <<>>,
    ("a" :> <<"b", ",", "c">>) @@ ("!" :> <<"*">>),
    ("a" :> <<"!">>) @@ ("b" :> <<"a", "0">>) }

\* allowed_inserts: absent, residue 3 only, residues 3 and 1.
InsertChoices == { <<>>, <<"!">>, <<"!", ".">> }

\* max_edits: int = 8
DefaultMaxEdits == 8

MaxEditsChoices == {0, 1, 2, DefaultMaxEdits}

InitEdit ==
  /\ pc = "start"
  /\ text \in Texts(EditChars, MaxEditLen)
  /\ target \in Targets
  /\ principle \in EditPrinciples
  /\ call = NotYet
  /\ plan = NotYet
  /\ spread = None
  /\ out = NotYet

\* plan = optimize_substitution(text, target, principle, subs, allow_delete,
\*                              allowed_inserts, max_edits)
CallOptimizeSubstitution ==
  /\ pc = "start"
  /\ \E subs \in SubsChoices, allow_delete \in BOOLEAN,
        allowed_inserts \in InsertChoices, max_edits \in MaxEditsChoices :
       /\ call' = [ fn |-> "optimize_substitution", subs |-> subs,
                    allow_delete |-> allow_delete,
                    allowed_inserts |-> allowed_inserts, max_edits |-> max_edits ]
       /\ plan' = optimize_substitution(text, target, principle, subs, allow_delete,
                                        allowed_inserts, max_edits)
  /\ pc' = "planned"
  /\ UNCHANGED <<text, target, principle, spread, out>>

\* out = apply_edit_plan(text, plan)
CallApplyEditPlan ==
  /\ pc = "planned"
  /\ plan.kind = "EditPlan"
  /\ out' = Returned(apply_edit_plan(text, plan.ops))
  /\ pc' = "applied"
  /\ UNCHANGED <<text, target, principle, call, plan, spread>>

NextEdit == CallOptimizeSubstitution \/ CallApplyEditPlan

SpecEdit == InitEdit /\ [][NextEdit]_vars

(***************************************************************************)
(* apply_edit_plan on EditPlans a caller builds itself.                    *)
(***************************************************************************)
MaxApplyLen == 2
MaxOps == 3

\* apply_edit_plan reads positions and never compares characters, so the
\* texts of pairwise distinct characters stand for all texts of their length.
DistinctText == <<"a", "b", "c", "A", "B", "C">>
ApplyTexts == {SubSeq(DistinctText, 1, k) : k \in 0..MaxApplyLen}

\* The operations a caller may list for a text of length n: every kind at
\* every position from one before the text to one past its end.
ExternalOps(n) ==
  {EditOp("del", pos, None, 1) : pos \in -1..(n + 1)}
  \cup {EditOp("sub", pos, Some("!"), 1) : pos \in -1..(n + 1)}
  \cup {EditOp("ins", pos, Some("*"), count) : pos \in -1..(n + 1), count \in {1, 2}}

InitApply ==
  /\ pc = "start"
  /\ text \in ApplyTexts
  /\ target = 9
  /\ principle = DefaultPrinciple
  /\ call = NotYet
  /\ plan = NotYet
  /\ spread = None
  /\ out = NotYet

\* EditPlan('edit', target, [], ...) constructed by the caller.
ConstructEditPlan ==
  /\ pc = "start"
  /\ LET se == string_energy(text, principle)
     IN plan' = EditPlan("edit", target, <<>>, se[1], se[2], se[1], se[2])
  /\ call' = [fn |-> "EditPlan"]
  /\ pc' = "planned"
  /\ UNCHANGED <<text, target, principle, spread, out>>

\* plan.ops.append(op)
AppendEditOp ==
  /\ pc = "planned"
  /\ call = [fn |-> "EditPlan"]
  /\ Len(plan.ops) < MaxOps
  /\ \E op \in ExternalOps(Len(text)) :
       plan' = [plan EXCEPT !.ops = Append(@, op)]
  /\ UNCHANGED <<pc, text, target, principle, call, spread, out>>

\* The caller exchanges two neighbours of plan.ops and applies the plan again.
ReorderAndApplyEditPlan ==
  /\ pc \in {"applied", "reapplied"}
  /\ plan.kind = "EditPlan"
  /\ \E k \in 1..(Len(plan.ops) - 1) :
       LET ops2 == [plan.ops EXCEPT ![k] = plan.ops[k + 1], ![k + 1] = plan.ops[k]]
       IN /\ plan' = [plan EXCEPT !.ops = ops2]
          /\ out' = Returned(apply_edit_plan(text, ops2))
  /\ pc' = "reapplied"
  /\ UNCHANGED <<text, target, principle, call, spread>>

NextApply ==
  \/ ConstructEditPlan
  \/ AppendEditOp
  \/ CallApplyEditPlan
  \/ ReorderAndApplyEditPlan

SpecApply == InitApply /\ [][NextApply]_vars

(***************************************************************************)
(* Both planners on the same texts.                                        *)
(***************************************************************************)
MaxBothLen == 2

InitBoth ==
  /\ pc = "start"
  /\ text \in Texts(EditChars, MaxBothLen)
  /\ target \in Targets
  /\ principle \in EditPrinciples
  /\ call = NotYet
  /\ plan = NotYet
  /\ spread = None
  /\ out = NotYet

NextBoth ==
  \/ CallOptimizeAttunement
  \/ CallApplyPlan
  \/ CallOptimizeSubstitution
  \/ CallApplyEditPlan

SpecBoth == InitBoth /\ [][NextBoth]_vars

(***************************************************************************)
(* Calls with any integer as target, and the same call made twice.         *)
(***************************************************************************)
MaxCallLen == 2

\* target: int, in and out of 1..9
TargetInputs == -1..11

InitCalls ==
  /\ pc = "start"
  /\ text \in Texts(EditChars, MaxCallLen)
  /\ target \in TargetInputs
  /\ principle \in EditPrinciples
  /\ call = NotYet
  /\ plan = NotYet
  /\ spread = None
  /\ out = NotYet

\* The planner called once more with the arguments of the call before.
CallPlannerAgain ==
  /\ pc = "planned"
  /\ plan' = IF call.fn = "optimize_attunement"
             THEN optimize_attunement(text, target, principle, call.allowed_symbols,
                                      call.method, call.max_steps)
             ELSE optimize_substitution(text, target, principle, call.subs,
                                        call.allow_delete, call.allowed_inserts,
                                        call.max_edits)
  /\ pc' = "planned again"
  /\ UNCHANGED <<text, target, principle, call, spread, out>>

NextCalls ==
  \/ CallOptimizeAttunement
  \/ CallOptimizeSubstitution
  \/ CallPlannerAgain

SpecCalls == InitCalls /\ [][NextCalls]_vars

(***************************************************************************)
(* The checksum engine called directly.                                    *)
(***************************************************************************)
MaxRoot == 40

\* n: int
RootInputs == (-MaxRoot)..MaxRoot

\* Whitespace, letters of both cases, an accented letter, the sharp s,
\* decimal digits, the superscript two, symbols in and out of the table.
EnergyChars ==
  { " ", "\t", "a", "A", "z", "Z", "é", "ß", "0", "3", "9", "²",
    ".", "!", "*", "?", "~" }

\* weights: the default, no entry at all, all 0, and mixed with a negative.
WeightChoices ==
  { DefaultWeights, <<>>,
    [letter |-> 0, digit |-> 0, symbol |-> 0],
    [letter |-> 2, digit |-> 7, symbol |-> -3] }

\* symbol_energy: the default table, and one with 0, a negative and a large value.
SymbolTables == { DefaultSymbolEnergy, "~" :> 0 @@ "." :> -13 @@ "!" :> 27 }

EnergyPrinciples ==
  { [ symbol_energy |-> t, letter_mode |-> m, normalize_zero_to_nine |-> z,
      weights |-> w ] :
    t \in SymbolTables, m \in {"a1z26", "codepoint"}, z \in BOOLEAN,
    w \in WeightChoices }

InitEnergy ==
  /\ pc = "start"
  /\ text = <<>>
  /\ target = 9
  /\ principle \in EnergyPrinciples
  /\ call = NotYet
  /\ plan = NotYet
  /\ spread = None
  /\ out = NotYet

\* out = digital_root(n, zero_to_nine)
CallDigitalRoot ==
  /\ pc = "start"
  /\ \E n \in RootInputs, zero_to_nine \in BOOLEAN :
       /\ call' = [fn |-> "digital_root", n |-> n, zero_to_nine |-> zero_to_nine]
       /\ out' = Returned(digital_root(n, zero_to_nine))
  /\ pc' = "returned"
  /\ UNCHANGED <<text, target, principle, plan, spread>>

\* out = char_energy(ch, principle)
CallCharEnergy ==
  /\ pc = "start"
  /\ \E ch \in EnergyChars :
       /\ call' = [fn |-> "char_energy", ch |-> ch]
       /\ out' = char_energy_call(ch, principle)
  /\ pc' = "returned"
  /\ UNCHANGED <<text, target, principle, plan, spread>>

NextEnergy == CallDigitalRoot \/ CallCharEnergy

SpecEnergy == InitEnergy /\ [][NextEnergy]_vars

(***************************************************************************)
(* The calls on objects.  Python passes references: a call frame binds     *)
(* local names to objects (env), and the objects' values are in a heap the *)
(* caller and the callee share.  The arguments are the first objects of    *)
(* the heap, in the order of the parameters.  Every statement that binds a *)
(* name or writes through a reference is a step on the frame; a loop is    *)
(* taken as one step that writes what the loop has written when it ends.   *)
(***************************************************************************)
\* The frame at the entry of a call: the k-th parameter names object k.
frame_of(params, args) ==
  [ env |-> [n \in {params[i] : i \in 1..Len(params)} |->
               CHOOSE i \in 1..Len(params) : params[i] = n],
    heap |-> args ]

\* The value of the object `name` refers to.
val(s, name) == s.heap[s.env[name]]

bind(env, name, id) ==
  [n \in DOMAIN env \cup {name} |-> IF n = name THEN id ELSE env[n]]

\* name = <an expression that builds a new object>
assign_new(s, name, v) ==
  [env |-> bind(s.env, name, Len(s.heap) + 1), heap |-> Append(s.heap, v)]

\* name = other: one more reference to the object of `other`
assign_ref(s, name, other) == [s EXCEPT !.env = bind(@, name, s.env[other])]

\* name[k] = ..., name.append(...), del name[k]: the object is written in place
mutate(s, name, v) == [s EXCEPT !.heap[s.env[name]] = v]

\* return <a new object>, return <name>, raise ValueError(msg)
return_new(s, v) == assign_new(s, "return", v)
return_ref(s, name) == assign_ref(s, "return", name)
raise_error(s, msg) == assign_new(s, "raise", Raised(msg))

\* How the frame was left, and with what: the returned value or the error.
raised(s) == "raise" \in DOMAIN s.env
outcome(s) == IF raised(s) THEN val(s, "raise") ELSE val(s, "return")

\* A call from the frame s: the callee runs on the caller's heap; on return
\* the caller's name `name` refers to the returned object, and an error the
\* callee raised is raised in the caller.
return_to(s, callee, name) ==
  [ env |-> IF raised(callee) THEN bind(s.env, "raise", callee.env["raise"])
            ELSE bind(s.env, name, callee.env["return"]),
    heap |-> callee.heap ]

\* Faulty variant: the operations of the other kinds removed from plan.ops
\* itself, and the list used under the new name.
kind_list_in_place(s, name, kind) ==
  assign_ref(mutate(s, "plan.ops", ops_of_kind(val(s, "plan.ops"), kind)),
             name, "plan.ops")

\* name = [op for op in plan.ops if op.kind == kind]: a new list
kind_list_new(s, name, kind) ==
  assign_new(s, name, ops_of_kind(val(s, "plan.ops"), kind))

\* for op in sorted(dels, ..., reverse=True): del chars[op.pos]
del_loop(s) ==
  mutate(s, "chars", apply_dels(val(s, "chars"), sorted_desc(val(s, "dels"))))

\* for op in subs: chars[op.pos] = op.ch
sub_loop(s) == mutate(s, "chars", apply_subs(val(s, "chars"), val(s, "subs")))

\* for op in sorted(ins, ...): chars = list(left + insert_str + right)
ins_loop(s) ==
  IF val(s, "ins") = <<>> THEN s
  ELSE assign_new(s, "chars", apply_ins(val(s, "chars"), sorted_asc(val(s, "ins"))))

\* apply_edit_plan on the frame with the names text and plan.ops.
apply_edit_plan_frame(s) ==
  IF val(s, "plan.ops") = <<>> THEN return_ref(s, "text")
  ELSE
    LET s1 == assign_new(s, "chars", val(s, "text"))
        s2 == del_loop(kind_list_new(s1, "dels", "del"))
        s3 == sub_loop(kind_list_new(s2, "subs", "sub"))
        s4 == ins_loop(kind_list_new(s3, "ins", "ins"))
    IN return_new(s4, val(s4, "chars"))

\* inserts = [] and the loop of inserts.extend([sym] * count)
collect_inserts(s) ==
  mutate(assign_new(s, "inserts", <<>>), "inserts", flatten_steps(val(s, "plan.steps")))

\* out = [], the loops of out.append(...), and return "".join(out)
intersperse_out(s) ==
  LET s1 == mutate(assign_new(s, "out", <<>>), "out",
                   intersperse_from(val(s, "chars"), val(s, "inserts"),
                                    interval_of(val(s, "spread"), Len(val(s, "chars")),
                                                Len(val(s, "inserts"))), 0, 0))
  IN return_new(s1, val(s1, "out"))

\* The intersperse branch from `if not chars:` on.
intersperse_frame(s) ==
  IF val(s, "chars") = <<>> THEN return_new(s, val(s, "inserts"))
  ELSE IF val(s, "inserts") = <<>> THEN return_ref(s, "text")
  ELSE intersperse_out(s)

\* apply_plan on the frame with the names text, plan.steps, plan.method
\* and spread.
apply_plan_frame(s) ==
  IF val(s, "plan.steps") = <<>> THEN return_ref(s, "text")
  ELSE IF val(s, "plan.method") = "append"
  THEN return_new(s, val(s, "text") \o flatten_steps(val(s, "plan.steps")))
  ELSE IF val(s, "plan.method") = "prepend"
  THEN return_new(s, flatten_steps(val(s, "plan.steps")) \o val(s, "text"))
  ELSE IF val(s, "plan.method") = "intersperse"
  THEN intersperse_frame(collect_inserts(assign_new(s, "chars", val(s, "text"))))
  ELSE raise_error(s, "Unsupported method")

\* if not allowed_symbols: allowed_symbols = ".!?,*+" (the local name is
\* bound to a new string)
default_allowed_symbols(s) ==
  IF val(s, "allowed_symbols") = <<>>
  THEN assign_new(s, "allowed_symbols", DefaultAllowedSymbols)
  ELSE s

\* allowed = [] and the loop of allowed.append((s, e))
collect_allowed(s) ==
  mutate(assign_new(s, "allowed", <<>>), "allowed",
         allowed_pairs(val(s, "allowed_symbols"), val(s, "principle")))

\* return Plan(method, target, steps, total, dr, new_total, new_dr)
attunement_return(s, total, dr, added) ==
  return_new(s, Plan(val(s, "method"), val(s, "target"), val(s, "steps"), total, dr,
                     total + added,
                     digital_root(total + added,
                                  val(s, "principle").normalize_zero_to_nine)))

\* From `if seq is None:` on.
attunement_steps(s, total, dr) ==
  IF val(s, "seq") = None
  THEN raise_error(s, "No feasible combination to reach target with given symbols.")
  ELSE attunement_return(
         assign_new(s, "steps", build_steps_from_seq(val(s, "seq")[1], val(s, "allowed"))),
         total, dr,
         added_energy(build_steps_from_seq(val(s, "seq")[1], val(s, "allowed")),
                      val(s, "principle")))

\* From `if not allowed:` on.
attunement_search(s, total, dr) ==
  IF val(s, "allowed") = <<>>
  THEN raise_error(s, "No valid allowed symbols; provide a non-empty set.")
  ELSE attunement_steps(
         assign_new(s, "seq",
                    minimal_residue_combo(_target_residue(total, val(s, "target")),
                                          val(s, "allowed"), val(s, "max_steps"))),
         total, dr)

\* The part of optimize_attunement after total, dr = string_energy(...).
optimize_attunement_from(s, total, dr) ==
  IF ~target_in_range(val(s, "target"))
  THEN raise_error(s, "Target energy must be 1..9")
  ELSE IF dr = val(s, "target")
  THEN return_new(s, Plan(val(s, "method"), val(s, "target"), <<>>, total, dr, total, dr))
  ELSE attunement_search(collect_allowed(default_allowed_symbols(s)), total, dr)

\* optimize_attunement on the frame with the names of its parameters.
optimize_attunement_frame(s) ==
  optimize_attunement_from(s, string_energy(val(s, "text"), val(s, "principle"))[1],
                           string_energy(val(s, "text"), val(s, "principle"))[2])

\* pos_deltas = [[] for _ in range(n)] and the loop that fills it; seen is a
\* new dict at every position.
build_pos_deltas(s) ==
  mutate(assign_new(s, "pos_deltas", [i \in 1..Len(val(s, "text")) |-> <<>>]),
         "pos_deltas",
         pos_deltas_of(val(s, "text"), val(s, "principle"), val(s, "subs"),
                       val(s, "allow_delete")))

\* new_best = best.copy(); new_best[nr] = ...; best = new_best
dp_loop(s) ==
  IF val(s, "text") = <<>> THEN s
  ELSE assign_ref(mutate(assign_new(s, "new_best", val(s, "best")), "new_best",
                         dp_positions(val(s, "best"), val(s, "pos_deltas"), 0,
                                      val(s, "max_edits"))),
                  "best", "new_best")

\* The frame of apply_edit_plan(text, EditPlan('edit', target, <ops>, ...)),
\* the list `ops_name` of the caller being the plan's ops.
edit_call_frame(s, ops_name) ==
  [env |-> ("text" :> s.env["text"]) @@ ("plan.ops" :> s.env[ops_name]), heap |-> s.heap]

\* out = apply_edit_plan(text, EditPlan(...)); new_total, new_dr =
\* string_energy(out, principle); return EditPlan('edit', target, <ops>, ...)
edit_plan_return(s, ops_name, total, dr, se2) ==
  return_new(s, EditPlan("edit", val(s, "target"), val(s, ops_name), total, dr,
                         se2[1], se2[2]))

apply_and_return(s, ops_name, total, dr) ==
  edit_plan_return(s, ops_name, total, dr,
                   string_energy(val(s, "out"), val(s, "principle")))

\* The fallback passes its list `ops` to apply_edit_plan and returns it in
\* the plan.
edit_plan_frame(s, ops_name, total, dr) ==
  apply_and_return(return_to(s, apply_edit_plan_frame(edit_call_frame(s, ops_name)), "out"),
                   ops_name, total, dr)

\* list(reversed(ops)), evaluated once for the plan that is applied and once
\* more for the plan that is returned: a new list each time.
reversed_ops_new(s) == assign_new(s, "list(reversed(ops))", reversed(val(s, "ops")))

reconstructed_plan_frame(s, total, dr) ==
  apply_and_return(
    reversed_ops_new(return_to(s, apply_edit_plan_frame(
                                    edit_call_frame(s, "list(reversed(ops))")), "out")),
    "list(reversed(ops))", total, dr)

\* The frame of optimize_attunement(text, target, principle,
\* allowed_symbols=allowed_inserts, method='append'), max_steps defaulted.
attunement_call_frame(s) ==
  [ env |-> ("text" :> s.env["text"]) @@ ("target" :> s.env["target"])
            @@ ("principle" :> s.env["principle"])
            @@ ("allowed_symbols" :> s.env["allowed_inserts"])
            @@ ("method" :> s.env["'append'"]) @@ ("max_steps" :> s.env["64"]),
    heap |-> s.heap ]

\* ops = [] and the loop of ops.append(EditOp('ins', len(text), sym, cnt))
fallback_ops(s) ==
  IF raised(s) THEN s
  ELSE mutate(assign_new(s, "ops", <<>>), "ops",
              ins_ops_of(val(s, "append_plan").steps, Len(val(s, "text"))))

\* The insertion-only fallback.
fallback_frame(s, total, dr) ==
  IF raised(s) THEN s
  ELSE edit_plan_frame(s, "ops", total, dr)

call_attunement(s) ==
  return_to(s, optimize_attunement_frame(attunement_call_frame(s)), "append_plan")

\* ops = [] and the walk along the backpointers with ops.append(...)
reconstruct_frame(s, delta_res) ==
  mutate(assign_new(s, "ops", <<>>), "ops", reconstruct_ops(val(s, "best"), delta_res))

\* From `if delta_res not in best:` on.
substitution_finish(s, delta_res, total, dr) ==
  IF delta_res \notin DOMAIN val(s, "best").val THEN
    IF val(s, "allowed_inserts") # <<>>
    THEN fallback_frame(
           fallback_ops(call_attunement(
             assign_new(assign_new(s, "'append'", "append"), "64", DefaultMaxSteps))),
           total, dr)
    ELSE raise_error(s, "No feasible substitution/deletion plan to reach target.")
  ELSE reconstructed_plan_frame(reversed_ops_new(reconstruct_frame(s, delta_res)),
                                total, dr)

\* The part of optimize_substitution after total, dr = string_energy(...).
optimize_substitution_from(s, total, dr) ==
  IF ~target_in_range(val(s, "target"))
  THEN raise_error(s, "Target energy must be 1..9")
  ELSE IF dr = val(s, "target")
  THEN return_new(s, EditPlan("substitute", val(s, "target"), <<>>, total, dr, total, dr))
  ELSE substitution_finish(dp_loop(assign_new(build_pos_deltas(s), "best", best_init)),
                           _target_residue(total, val(s, "target")), total, dr)

\* optimize_substitution on the frame with the names of its parameters.
optimize_substitution_frame(s) ==
  optimize_substitution_from(s, string_energy(val(s, "text"), val(s, "principle"))[1],
                             string_energy(val(s, "text"), val(s, "principle"))[2])

AttunementParams ==
  <<"text", "target", "principle", "allowed_symbols", "method", "max_steps">>

SubstitutionParams ==
  <<"text", "target", "principle", "subs", "allow_delete", "allowed_inserts", "max_edits">>

\* The caller builds the arguments of optimize_attunement.
PassAttunementArguments ==
  /\ pc = "start"
  /\ \E allowed_symbols \in AllowedChoices, method \in Methods,
        max_steps \in MaxStepsChoices :
       call' = [ fn |-> "optimize_attunement", allowed_symbols |-> allowed_symbols,
                 method |-> method, max_steps |-> max_steps ]
  /\ pc' = "called"
  /\ UNCHANGED <<text, target, principle, plan, spread, out>>

\* The caller's objects as optimize_attunement leaves them, and its result.
AttunementDone(s) ==
  /\ text' = s.heap[1]
  /\ target' = s.heap[2]
  /\ principle' = s.heap[3]
  /\ call' = [ fn |-> "optimize_attunement", allowed_symbols |-> s.heap[4],
               method |-> s.heap[5], max_steps |-> s.heap[6] ]
  /\ plan' = outcome(s)

\* plan = optimize_attunement(text, target, principle, allowed_symbols, method, max_steps)
RunOptimizeAttunement ==
  /\ pc = "called"
  /\ call.fn = "optimize_attunement"
  /\ AttunementDone(optimize_attunement_frame(
       frame_of(AttunementParams,
                <<text, target, principle, call.allowed_symbols, call.method,
                  call.max_steps>>)))
  /\ pc' = "planned"
  /\ UNCHANGED <<spread, out>>

\* The caller builds the arguments of optimize_substitution.
PassSubstitutionArguments ==
  /\ pc = "start"
  /\ \E subs \in SubsChoices, allow_delete \in BOOLEAN,
        allowed_inserts \in InsertChoices, max_edits \in MaxEditsChoices :
       call' = [ fn |-> "optimize_substitution", subs |-> subs,
                 allow_delete |-> allow_delete,
                 allowed_inserts |-> allowed_inserts, max_edits |-> max_edits ]
  /\ pc' = "called"
  /\ UNCHANGED <<text, target, principle, plan, spread, out>>

\* The caller's objects as optimize_substitution leaves them, and its result.
SubstitutionDone(s) ==
  /\ text' = s.heap[1]
  /\ target' = s.heap[2]
  /\ principle' = s.heap[3]
  /\ call' = [ fn |-> "optimize_substitution", subs |-> s.heap[4],
               allow_delete |-> s.heap[5], allowed_inserts |-> s.heap[6],
               max_edits |-> s.heap[7] ]
  /\ plan' = outcome(s)

\* plan = optimize_substitution(text, target, principle, subs, allow_delete,
\*                              allowed_inserts, max_edits)
RunOptimizeSubstitution ==
  /\ pc = "called"
  /\ call.fn = "optimize_substitution"
  /\ SubstitutionDone(optimize_substitution_frame(
       frame_of(SubstitutionParams,
                <<text, target, principle, call.subs, call.allow_delete,
                  call.allowed_inserts, call.max_edits>>)))
  /\ pc' = "planned"
  /\ UNCHANGED <<spread, out>>

\* The caller's text and plan as apply_plan leaves them, and its result.
ApplyPlanDone(s) ==
  /\ text' = s.heap[1]
  /\ plan' = [plan EXCEPT !.steps = s.heap[2], !.method = s.heap[3]]
  /\ spread' = s.heap[4]
  /\ out' = IF raised(s) THEN outcome(s) ELSE Returned(outcome(s))

\* out = apply_plan(text, plan, spread)
RunApplyPlan ==
  /\ pc = "planned"
  /\ plan.kind = "Plan"
  /\ \E spr \in Spreads :
       ApplyPlanDone(apply_plan_frame(
         frame_of(<<"text", "plan.steps", "plan.method", "spread">>,
                  <<text, plan.steps, plan.method, spr>>)))
  /\ pc' = "applied"
  /\ UNCHANGED <<target, principle, call>>

\* The caller's text and plan as apply_edit_plan leaves them, and its result.
ApplyEditPlanDone(s) ==
  /\ text' = s.heap[1]
  /\ plan' = [plan EXCEPT !.ops = s.heap[2]]
  /\ out' = Returned(outcome(s))

\* out = apply_edit_plan(text, plan)
RunApplyEditPlan ==
  /\ pc = "planned"
  /\ plan.kind = "EditPlan"
  /\ ApplyEditPlanDone(apply_edit_plan_frame(
       frame_of(<<"text", "plan.ops">>, <<text, plan.ops>>)))
  /\ pc' = "applied"
  /\ UNCHANGED <<target, principle, call, spread>>

NextFrame ==
  \/ PassAttunementArguments
  \/ RunOptimizeAttunement
  \/ PassSubstitutionArguments
  \/ RunOptimizeSubstitution
  \/ RunApplyPlan
  \/ RunApplyEditPlan

SpecFrame == InitBoth /\ [][NextFrame]_vars

(***************************************************************************)
(* The planners run loop by loop.  One step is one iteration of the while  *)
(* loop of minimal_residue_combo, one pass of the dynamic program over a   *)
(* text position, or one step of the walk along the backpointers.  While a *)
(* planner runs, `out` holds its locals: kind "running", the loop it is    *)
(* in, and a log of what the loop has enqueued or visited; when the call   *)
(* has ended `out` keeps the log with kind "finished".                     *)
(***************************************************************************)
MaxStepLen == 2

\* The locals of minimal_residue_combo when the while-loop is entered.
bfs_start == [parent |-> (0 :> <<-1, -1>>), depth |-> (0 :> 0), q |-> <<0>>]

\* optimize_attunement from `if seq is None:` on.
plan_of_seq(seq, allowed, method, tgt, p, total, dr) ==
  IF seq = None
  THEN Raised("No feasible combination to reach target with given symbols.")
  ELSE LET steps == build_steps_from_seq(seq[1], allowed)
           new_total == total + added_energy(steps, p)
       IN Plan(method, tgt, steps, total, dr, new_total,
               digital_root(new_total, p.normalize_zero_to_nine))

\* minimal_residue_combo up to the while-loop: the plan or the error the call
\* ends with when the loop is not entered, or the locals the loop starts with.
search_entry(delta_res, allowed, method, tgt, p, total, dr, max_steps) ==
  IF delta_res = 0
  THEN [done |-> TRUE, result |-> plan_of_seq(Some(<<>>), allowed, method, tgt, p, total, dr)]
  ELSE IF \A i \in 1..Len(allowed) : residues_of(allowed)[i] = 0
  THEN [done |-> TRUE, result |-> plan_of_seq(None, allowed, method, tgt, p, total, dr)]
  ELSE [done |-> FALSE,
        locals |-> [ kind |-> "running", loop |-> "bfs", allowed |-> allowed,
                     delta_res |-> delta_res, method |-> method, total |-> total,
                     dr |-> dr, max_steps |-> max_steps, s |-> bfs_start,
                     enqueued |-> <<0>> ]]

\* optimize_attunement from `if not allowed:` on, up to the while-loop.
allowed_entry(allowed, method, tgt, p, total, dr, max_steps) ==
  IF allowed = <<>>
  THEN [done |-> TRUE, result |-> Raised("No valid allowed symbols; provide a non-empty set.")]
  ELSE search_entry(_target_residue(total, tgt), allowed, method, tgt, p, total, dr,
                    max_steps)

\* optimize_attunement after total, dr = string_energy(...), up to the loop.
attunement_entry_from(txt, tgt, p, allowed_symbols, method, max_steps, total, dr) ==
  IF ~target_in_range(tgt)
  THEN [done |-> TRUE, result |-> Raised("Target energy must be 1..9")]
  ELSE IF dr = tgt
  THEN [done |-> TRUE, result |-> Plan(method, tgt, <<>>, total, dr, total, dr)]
  ELSE allowed_entry(allowed_pairs(IF allowed_symbols = <<>> THEN DefaultAllowedSymbols
                                   ELSE allowed_symbols, p),
                     method, tgt, p, total, dr, max_steps)

attunement_entry(txt, tgt, p, allowed_symbols, method, max_steps) ==
  attunement_entry_from(txt, tgt, p, allowed_symbols, method, max_steps,
                        string_energy(txt, p)[1], string_energy(txt, p)[2])

\* The log a call leaves that ended before any loop.
NoLoop == [kind |-> "finished", loop |-> "none"]

\* What the caller of the search gets for append_plan: optimize_attunement
\* returns it, the fallback of optimize_substitution turns it into an EditPlan.
result_for_caller(append_plan, total, dr) ==
  IF call.fn = "optimize_attunement" THEN append_plan
  ELSE fallback_plan(text, target, principle, append_plan, total, dr)

InitSteps ==
  /\ pc = "start"
  /\ text \in Texts(EditChars, MaxStepLen)
  /\ target \in Targets
  /\ principle \in EditPrinciples
  /\ call = NotYet
  /\ plan = NotYet
  /\ spread = None
  /\ out = NotYet

\* The call either ends before the loop or enters it.
EnterWith(e) ==
  IF e.done
  THEN plan' = e.result /\ out' = NoLoop /\ pc' = "planned"
  ELSE plan' = plan /\ out' = e.locals /\ pc' = "bfs"

\* optimize_attunement is called and runs up to the while-loop of the search.
EnterOptimizeAttunement ==
  /\ pc = "start"
  /\ \E allowed_symbols \in AllowedChoices, method \in Methods,
        max_steps \in MaxStepsChoices :
       /\ call' = [ fn |-> "optimize_attunement", allowed_symbols |-> allowed_symbols,
                    method |-> method, max_steps |-> max_steps ]
       /\ EnterWith(attunement_entry(text, target, principle, allowed_symbols,
                                     method, max_steps))
  /\ UNCHANGED <<text, target, principle, spread>>

\* The end of an iteration that scanned the residues: the target was reached
\* and the call ends, or the loop goes on with what was enqueued.
AfterScan(r, len_q) ==
  IF r.found
  THEN /\ plan' = result_for_caller(
                    plan_of_seq(Some(r.seq), out.allowed, out.method, target,
                                principle, out.total, out.dr),
                    out.total, out.dr)
       /\ out' = [out EXCEPT !.kind = "finished"]
       /\ pc' = "planned"
  ELSE /\ out' = [out EXCEPT !.s = r.s,
                             !.enqueued = @ \o SubSeq(r.s.q, len_q + 1, Len(r.s.q))]
       /\ UNCHANGED <<plan, pc>>

\* The iteration for the residue taken from the queue.
IterateFrom(taken) ==
  IF depth_exhausted(out.s.depth[taken.cur], out.max_steps)
  THEN out' = [out EXCEPT !.s.q = taken.rest] /\ UNCHANGED <<plan, pc>>
  ELSE AfterScan(bfs_scan(residues_of(out.allowed), out.delta_res, taken.cur,
                          out.s.depth[taken.cur], 1, [out.s EXCEPT !.q = taken.rest]),
                 Len(taken.rest))

\* One iteration of `while q:`.
BfsIterate ==
  /\ pc = "bfs"
  /\ out.s.q # <<>>
  /\ IterateFrom(popleft(out.s.q))
  /\ UNCHANGED <<text, target, principle, call, spread>>

\* The queue is empty: return None, and the caller raises.
BfsExhausted ==
  /\ pc = "bfs"
  /\ out.s.q = <<>>
  /\ plan' = result_for_caller(
               plan_of_seq(None, out.allowed, out.method, target, principle,
                           out.total, out.dr),
               out.total, out.dr)
  /\ out' = [out EXCEPT !.kind = "finished"]
  /\ pc' = "planned"
  /\ UNCHANGED <<text, target, principle, call, spread>>

\* optimize_substitution up to the loop over the positions.
substitution_entry_from(txt, tgt, p, subs, allow_delete, total, dr) ==
  IF ~target_in_range(tgt)
  THEN [done |-> TRUE, result |-> Raised("Target energy must be 1..9")]
  ELSE IF dr = tgt
  THEN [done |-> TRUE, result |-> EditPlan("substitute", tgt, <<>>, total, dr, total, dr)]
  ELSE [done |-> FALSE,
        locals |-> [ kind |-> "running", loop |-> "dp", i |-> 0, best |-> best_init,
                     pos_deltas |-> pos_deltas_of(txt, p, subs, allow_delete),
                     delta_res |-> _target_residue(total, tgt),
                     total |-> total, dr |-> dr ]]

substitution_entry(txt, tgt, p, subs, allow_delete) ==
  substitution_entry_from(txt, tgt, p, subs, allow_delete,
                          string_energy(txt, p)[1], string_energy(txt, p)[2])

EnterDpWith(e) ==
  IF e.done
  THEN plan' = e.result /\ out' = NoLoop /\ pc' = "planned"
  ELSE plan' = plan /\ out' = e.locals /\ pc' = "dp"

\* optimize_substitution is called and runs up to the dynamic program.
EnterOptimizeSubstitution ==
  /\ pc = "start"
  /\ \E subs \in SubsChoices, allow_delete \in BOOLEAN,
        allowed_inserts \in InsertChoices, max_edits \in MaxEditsChoices :
       /\ call' = [ fn |-> "optimize_substitution", subs |-> subs,
                    allow_delete |-> allow_delete,
                    allowed_inserts |-> allowed_inserts, max_edits |-> max_edits ]
       /\ EnterDpWith(substitution_entry(text, target, principle, subs, allow_delete))
  /\ UNCHANGED <<text, target, principle, spread>>

\* One pass of `for i in range(n):`.
DpPass ==
  /\ pc = "dp"
  /\ out.i < Len(text)
  /\ out' = [out EXCEPT !.best = dp_residues(out.best, out.best, 1,
                                             out.pos_deltas[out.i + 1], out.i,
                                             call.max_edits),
                        !.i = @ + 1]
  /\ UNCHANGED <<pc, text, target, principle, call, plan, spread>>

\* After the last pass: the walk along the backpointers, the fallback, or
\* the error.
DpDone ==
  /\ pc = "dp"
  /\ out.i >= Len(text)
  /\ IF out.delta_res \in DOMAIN out.best.val
     THEN /\ out' = [ kind |-> "running", loop |-> "walk", passes |-> out.i,
                      best |-> out.best, cur |-> out.delta_res, ops |-> <<>>,
                      visited |-> <<out.delta_res>>, total |-> out.total, dr |-> out.dr ]
          /\ pc' = "walk"
          /\ plan' = plan
     ELSE IF call.allowed_inserts # <<>>
     THEN EnterWith(attunement_entry(text, target, principle, call.allowed_inserts,
                                     "append", DefaultMaxSteps))
     ELSE /\ plan' = Raised("No feasible substitution/deletion plan to reach target.")
          /\ out' = [kind |-> "finished", loop |-> "dp", passes |-> out.i]
          /\ pc' = "planned"
  /\ UNCHANGED <<text, target, principle, call, spread>>

\* The operations after one more step of the walk, at the entry of cur.
walk_ops(ops, entry) ==
  IF entry[3][1] >= 0
  THEN Append(ops, IF entry[3][3] = None THEN EditOp("del", entry[3][1], None, 1)
                   ELSE EditOp("sub", entry[3][1], entry[3][3], 1))
  ELSE ops

\* One iteration of `while cur != 0:`.
WalkStep ==
  /\ pc = "walk"
  /\ out.cur # 0
  /\ out' = [out EXCEPT !.ops = walk_ops(@, out.best.val[out.cur]),
                        !.cur = out.best.val[out.cur][2],
                        !.visited = Append(@, out.best.val[out.cur][2])]
  /\ UNCHANGED <<pc, text, target, principle, call, plan, spread>>

\* cur is 0: the plan is applied, its totals are computed, and it is returned.
WalkDone ==
  /\ pc = "walk"
  /\ out.cur = 0
  /\ plan' = edit_plan_of(text, target, principle, reversed(out.ops), out.total, out.dr)
  /\ out' = [out EXCEPT !.kind = "finished"]
  /\ pc' = "planned"
  /\ UNCHANGED <<text, target, principle, call, spread>>

NextSteps ==
  \/ EnterOptimizeAttunement
  \/ BfsIterate
  \/ BfsExhausted
  \/ EnterOptimizeSubstitution
  \/ DpPass
  \/ DpDone
  \/ WalkStep
  \/ WalkDone

SpecSteps == InitSteps /\ [][NextSteps]_vars

(***************************************************************************)
(* Two planner calls at once.  Two calls of one program, on the same text, *)
(* target and Principle, take their steps in any order; a step is a step   *)
(* of the loop-by-loop run above.  The tables, the queue and the list of   *)
(* operations of a call are objects of the one heap of the program, and a  *)
(* call reaches them through the references its frame holds.  `call` and   *)
(* `plan` are pairs, one entry per call; `out` holds the heap, the two     *)
(* frames, and for each call the set of objects it has read or written.    *)
(***************************************************************************)
MaxTwoLen == 1

\* Faulty variant: one object per place of creation, whichever call runs it,
\* as a table kept at module level would be.
object_per_site(k, site, n) == <<0, site, n>>

\* {0: (-1, -1)}, {0: 0}, deque([0]), {0: (0, -1, (-1, 0, None))},
\* best.copy() and [] make a new object each time they are evaluated: the
\* n-th object call k makes at a place.
new_object(k, site, n) == <<k, site, n>>

NoObjects == [id \in {} |-> None]

\* The heap with object id holding v.
store(h, id, v) == [x \in DOMAIN h \cup {id} |-> IF x = id THEN v ELSE h[x]]

\* parent, depth and q of minimal_residue_combo.
search_refs(k) ==
  [ parent |-> new_object(k, "parent", 0), depth |-> new_object(k, "depth", 0),
    q |-> new_object(k, "q", 0) ]

search_objects(h, refs) ==
  [parent |-> h[refs.parent], depth |-> h[refs.depth], q |-> h[refs.q]]

store_search(h, refs, s) ==
  store(store(store(h, refs.parent, s.parent), refs.depth, s.depth), refs.q, s.q)

refs_of(refs) == {refs.parent, refs.depth, refs.q}

\* What a step of a call gives: its frame, the heap, the objects the step
\* read or wrote, and the plan or error when the call ended with the step.
ended(h, t, result) == [f |-> [at |-> "returned"], h |-> h, t |-> t, plan |-> result]
going(f, h, t) == [f |-> f, h |-> h, t |-> t, plan |-> NotYet]

\* The search is entered with new parent, depth and q, or the call ends
\* before it.
search_entered(k, h, e) ==
  IF e.done THEN ended(h, {}, e.result)
  ELSE going([ at |-> "bfs",
               loc |-> [ allowed |-> e.locals.allowed, delta_res |-> e.locals.delta_res,
                         method |-> e.locals.method, total |-> e.locals.total,
                         dr |-> e.locals.dr, max_steps |-> e.locals.max_steps,
                         s |-> search_refs(k) ] ],
             store_search(h, search_refs(k), e.locals.s), refs_of(search_refs(k)))

\* What the caller of the search returns, for the call c.
caller_result(c, append_plan, total, dr) ==
  IF c.fn = "optimize_attunement" THEN append_plan
  ELSE fallback_plan(text, target, principle, append_plan, total, dr)

\* The end of an iteration that scanned the residues.
scan_done(f, h, c, r) ==
  IF r.found
  THEN ended(store_search(h, f.loc.s, r.s), refs_of(f.loc.s),
             caller_result(c, plan_of_seq(Some(r.seq), f.loc.allowed, f.loc.method,
                                          target, principle, f.loc.total, f.loc.dr),
                           f.loc.total, f.loc.dr))
  ELSE going(f, store_search(h, f.loc.s, r.s), refs_of(f.loc.s))

\* One iteration of `while q:` on the objects s of the call.
iterate(f, h, c, s, taken) ==
  IF depth_exhausted(s.depth[taken.cur], f.loc.max_steps)
  THEN going(f, store(h, f.loc.s.q, taken.rest), {f.loc.s.q, f.loc.s.depth})
  ELSE scan_done(f, h, c,
                 bfs_scan(residues_of(f.loc.allowed), f.loc.delta_res, taken.cur,
                          s.depth[taken.cur], 1, [s EXCEPT !.q = taken.rest]))

\* return None, and the caller raises.
search_exhausted(f, h, c) ==
  ended(h, {f.loc.s.q},
        caller_result(c, plan_of_seq(None, f.loc.allowed, f.loc.method, target,
                                     principle, f.loc.total, f.loc.dr),
                      f.loc.total, f.loc.dr))

\* The dynamic program is entered with a new table, or the call ends before.
dp_entered(k, h, e) ==
  IF e.done THEN ended(h, {}, e.result)
  ELSE going([ at |-> "dp",
               loc |-> [ i |-> 0, best |-> new_object(k, "best", 0),
                         pos_deltas |-> e.locals.pos_deltas,
                         delta_res |-> e.locals.delta_res,
                         total |-> e.locals.total, dr |-> e.locals.dr ] ],
             store(h, new_object(k, "best", 0), e.locals.best),
             {new_object(k, "best", 0)})

\* One pass: new_best = best.copy(), the updates, best = new_best.
dp_pass(k, f, h, c) ==
  going([f EXCEPT !.loc.i = @ + 1, !.loc.best = new_object(k, "best", f.loc.i + 1)],
        store(h, new_object(k, "best", f.loc.i + 1),
              dp_residues(h[f.loc.best], h[f.loc.best], 1,
                          f.loc.pos_deltas[f.loc.i + 1], f.loc.i, c.max_edits)),
        {f.loc.best, new_object(k, "best", f.loc.i + 1)})

\* After the last pass: the walk with a new list ops, the fallback, or the
\* error.
dp_done(k, f, h, c) ==
  IF f.loc.delta_res \in DOMAIN h[f.loc.best].val
  THEN going([ at |-> "walk",
               loc |-> [ best |-> f.loc.best, cur |-> f.loc.delta_res,
                         ops |-> new_object(k, "ops", 0),
                         total |-> f.loc.total, dr |-> f.loc.dr ] ],
             store(h, new_object(k, "ops", 0), <<>>),
             {f.loc.best, new_object(k, "ops", 0)})
  ELSE IF c.allowed_inserts # <<>>
  THEN search_entered(k, h, attunement_entry(text, target, principle,
                                             c.allowed_inserts, "append",
                                             DefaultMaxSteps))
  ELSE ended(h, {f.loc.best},
             Raised("No feasible substitution/deletion plan to reach target."))

\* One iteration of `while cur != 0:`.
walk_step(f, h) ==
  going([f EXCEPT !.loc.cur = h[f.loc.best].val[f.loc.cur][2]],
        store(h, f.loc.ops, walk_ops(h[f.loc.ops], h[f.loc.best].val[f.loc.cur])),
        {f.loc.best, f.loc.ops})

walk_done(f, h) ==
  ended(h, {f.loc.ops},
        edit_plan_of(text, target, principle, reversed(h[f.loc.ops]),
                     f.loc.total, f.loc.dr))

\* The calls: insertion planning with the default symbols, with a symbol of
\* residue 3 only, and with two symbols under a budget of 2; edit planning
\* with a catalog, with the insertion fallback, and with a budget of 1.
TwoCallChoices ==
  { [ fn |-> "optimize_attunement", allowed_symbols |-> <<>>, method |-> "append",
      max_steps |-> DefaultMaxSteps ],
    [ fn |-> "optimize_attunement", allowed_symbols |-> <<"!">>, method |-> "prepend",
      max_steps |-> DefaultMaxSteps ],
    [ fn |-> "optimize_attunement", allowed_symbols |-> <<".", "?">>,
      method |-> "append", max_steps |-> 2 ],
    [ fn |-> "optimize_substitution",
      subs |-> ("a" :> <<"b", ",", "c">>) @@ ("!" :> <<"*">>),
      allow_delete |-> TRUE, allowed_inserts |-> <<>>, max_edits |-> DefaultMaxEdits ],
    [ fn |-> "optimize_substitution", subs |-> <<>>, allow_delete |-> FALSE,
      allowed_inserts |-> <<"!", ".">>, max_edits |-> DefaultMaxEdits ],
    [ fn |-> "optimize_substitution",
      subs |-> ("a" :> <<"!">>) @@ ("b" :> <<"a", "0">>),
      allow_delete |-> TRUE, allowed_inserts |-> <<"!">>, max_edits |-> 1 ] }

InLoop(f) == f.at \in {"bfs", "dp", "walk"}

InitTwo ==
  /\ pc = "start"
  /\ text \in Texts(EditChars, MaxTwoLen)
  /\ target \in Targets
  /\ principle \in EditPrinciples
  /\ call = NotYet
  /\ plan = NotYet
  /\ spread = None
  /\ out = NotYet

\* The two calls are made; neither has taken a step.
StartTwoCalls ==
  /\ pc = "start"
  /\ \E c1, c2 \in TwoCallChoices : call' = <<c1, c2>>
  /\ plan' = <<NotYet, NotYet>>
  /\ out' = [ heap |-> NoObjects, frames |-> <<[at |-> "called"], [at |-> "called"]>>,
              touched |-> <<{}, {}>>, overlap |-> FALSE ]
  /\ pc' = "running"
  /\ UNCHANGED <<text, target, principle, spread>>

\* Call k has taken the step r.  overlap records that a call took a step
\* inside a loop while the other call was inside a loop.
StepOf(k, r) ==
  /\ out' = [out EXCEPT !.heap = r.h, !.frames[k] = r.f,
                        !.touched[k] = @ \cup r.t,
                        !.overlap = @ \/ (InLoop(out.frames[k]) /\ InLoop(out.frames[3 - k]))]
  /\ plan' = [plan EXCEPT ![k] = r.plan]
  /\ pc' = IF r.f.at = "returned" /\ out.frames[3 - k].at = "returned"
           THEN "planned" ELSE "running"
  /\ UNCHANGED <<text, target, principle, call, spread>>

CallEntersAttunement(k) ==
  /\ pc = "running"
  /\ out.frames[k].at = "called"
  /\ call[k].fn = "optimize_attunement"
  /\ StepOf(k, search_entered(k, out.heap,
                              attunement_entry(text, target, principle,
                                               call[k].allowed_symbols, call[k].method,
                                               call[k].max_steps)))

CallIteratesSearch(k) ==
  /\ pc = "running"
  /\ out.frames[k].at = "bfs"
  /\ out.heap[out.frames[k].loc.s.q] # <<>>
  /\ StepOf(k, iterate(out.frames[k], out.heap, call[k],
                       search_objects(out.heap, out.frames[k].loc.s),
                       popleft(out.heap[out.frames[k].loc.s.q])))

CallExhaustsSearch(k) ==
  /\ pc = "running"
  /\ out.frames[k].at = "bfs"
  /\ out.heap[out.frames[k].loc.s.q] = <<>>
  /\ StepOf(k, search_exhausted(out.frames[k], out.heap, call[k]))

CallEntersSubstitution(k) ==
  /\ pc = "running"
  /\ out.frames[k].at = "called"
  /\ call[k].fn = "optimize_substitution"
  /\ StepOf(k, dp_entered(k, out.heap,
                          substitution_entry(text, target, principle, call[k].subs,
                                             call[k].allow_delete)))

CallPassesPosition(k) ==
  /\ pc = "running"
  /\ out.frames[k].at = "dp"
  /\ out.frames[k].loc.i < Len(text)
  /\ StepOf(k, dp_pass(k, out.frames[k], out.heap, call[k]))

CallEndsPasses(k) ==
  /\ pc = "running"
  /\ out.frames[k].at = "dp"
  /\ out.frames[k].loc.i >= Len(text)
  /\ StepOf(k, dp_done(k, out.frames[k], out.heap, call[k]))

CallWalks(k) ==
  /\ pc = "running"
  /\ out.frames[k].at = "walk"
  /\ out.frames[k].loc.cur # 0
  /\ StepOf(k, walk_step(out.frames[k], out.heap))

CallEndsWalk(k) ==
  /\ pc = "running"
  /\ out.frames[k].at = "walk"
  /\ out.frames[k].loc.cur = 0
  /\ StepOf(k, walk_done(out.frames[k], out.heap))

\* Whichever call is scheduled takes its next step.
NextTwo ==
  \/ StartTwoCalls
  \/ \E k \in 1..2 : CallEntersAttunement(k)
  \/ \E k \in 1..2 : CallIteratesSearch(k)
  \/ \E k \in 1..2 : CallExhaustsSearch(k)
  \/ \E k \in 1..2 : CallEntersSubstitution(k)
  \/ \E k \in 1..2 : CallPassesPosition(k)
  \/ \E k \in 1..2 : CallEndsPasses(k)
  \/ \E k \in 1..2 : CallWalks(k)
  \/ \E k \in 1..2 : CallEndsWalk(k)

SpecTwo == InitTwo /\ [][NextTwo]_vars

(***************************************************************************)
(* The options of the edit planner.  optimize_substitution runs up to the  *)
(* dynamic program on texts with letters of both cases, a symbol of energy *)
(* 9, a space and a zero, with catalogs whose replacements repeat a delta, *)
(* keep the energy, or have the delta of the case change.                  *)
(***************************************************************************)
MaxOptionLen == 2

OptionChars == {"a", "A", "*", " ", "0", "!"}

OptionCatalogs ==
  { <<>>,
    ("a" :> <<"b", ",", "c">>) @@ ("!" :> <<"*">>),
    ("a" :> <<",", "b">>) @@ ("A" :> <<"a", "B">>) @@ ("*" :> <<"9", "!", "0">>)
      @@ (" " :> <<"0", "9", ".">>) }

InitOptions ==
  /\ pc = "start"
  /\ text \in Texts(OptionChars, MaxOptionLen)
  /\ target \in Targets
  /\ principle \in EditPrinciples
  /\ call = NotYet
  /\ plan = NotYet
  /\ spread = None
  /\ out = NotYet

\* optimize_substitution is called and has built pos_deltas.
EnumerateOptions ==
  /\ pc = "start"
  /\ \E subs \in OptionCatalogs, allow_delete \in BOOLEAN :
       /\ call' = [ fn |-> "optimize_substitution", subs |-> subs,
                    allow_delete |-> allow_delete, allowed_inserts |-> <<>>,
                    max_edits |-> DefaultMaxEdits ]
       /\ EnterDpWith(substitution_entry(text, target, principle, subs, allow_delete))
  /\ UNCHANGED <<text, target, principle, spread>>

NextOptions == EnumerateOptions

SpecOptions == InitOptions /\ [][NextOptions]_vars

(***************************************************************************)
(* The search called on its own: minimal_residue_combo(delta_res, allowed, *)
(* max_steps) for every delta_res of 0..8, lists of allowed symbols with   *)
(* energies 0..9, and budgets below, at and above 8.  `call` holds the     *)
(* arguments, `plan` the Optional[List[int]] returned.                     *)
(***************************************************************************)
MaxAllowedLen == 2

\* The energies of the allowed symbols; the symbol itself is not read.
AllowedLists == UNION {[1..k -> {<<"s", e>> : e \in 0..9}] : k \in 0..MaxAllowedLen}

SearchBudgets == {0, 7, 8, 9, DefaultMaxSteps}

InitSearch ==
  /\ pc = "start"
  /\ text = <<>>
  /\ target = 9
  /\ principle = DefaultPrinciple
  /\ call \in [ fn : {"minimal_residue_combo"}, delta_res : 0..8,
                allowed : AllowedLists, max_steps : SearchBudgets ]
  /\ plan = NotYet
  /\ spread = None
  /\ out = NotYet

\* plan = minimal_residue_combo(delta_res, allowed, max_steps)
CallMinimalResidueCombo ==
  /\ pc = "start"
  /\ plan' = minimal_residue_combo(call.delta_res, call.allowed, call.max_steps)
  /\ pc' = "returned"
  /\ UNCHANGED <<text, target, principle, call, spread, out>>

NextSearch == CallMinimalResidueCombo

SpecSearch == InitSearch /\ [][NextSearch]_vars

(***************************************************************************)
(* Properties.                                                             *)
(***************************************************************************)
TotalOf(s) == string_energy(s, principle)[1]
RootOf(s) == string_energy(s, principle)[2]

\* requiredDelta = (targetResidue - currentResidue) mod 9
RequiredDelta == (target - TotalOf(text)) % 9

Planned == pc \in {"planned", "applied", "reapplied"}
Applied == pc \in {"applied", "reapplied"}
FromAttunement == Planned /\ call.fn = "optimize_attunement"
FromSubstitution == Planned /\ call.fn = "optimize_substitution"

\* The allowed symbols the insertion planner works with.
EffectiveSymbols ==
  IF call.allowed_symbols = <<>> THEN DefaultAllowedSymbols ELSE call.allowed_symbols

AllowedEnergies ==
  {char_energy(EffectiveSymbols[i], principle) : i \in 1..Len(EffectiveSymbols)}

RECURSIVE InsertedCount(_)
InsertedCount(steps) ==
  IF steps = <<>> THEN 0 ELSE Head(steps)[2] + InsertedCount(Tail(steps))

RECURSIVE StepsEnergy(_)
StepsEnergy(steps) ==
  IF steps = <<>> THEN 0
  ELSE Head(steps)[2] * char_energy(Head(steps)[1], principle) + StepsEnergy(Tail(steps))

NoInsert(ops) == \A k \in 1..Len(ops) : ops[k].kind # "ins"

\* An EditPlan that comes from the dynamic program, not from the early exit
\* nor from the insertion fallback.
BuiltByDP ==
  /\ FromSubstitution
  /\ plan.kind = "EditPlan"
  /\ plan.method = "edit"
  /\ NoInsert(plan.ops)

\* C1: under the default configuration, a plan of optimize_attunement applied
\* with apply_plan (append, prepend or intersperse, any spread) gives a text
\* whose recomputed checksum is (plan.total_after, plan.dr_after) and whose
\* digital root is the target.
AppliedPlanHasDeclaredChecksum ==
  (/\ pc = "applied"
   /\ FromAttunement
   /\ principle = DefaultPrinciple
   /\ plan.method \in SupportedMethods)
  => /\ out.kind = "returned"
     /\ string_energy(out.value, principle) = <<plan.total_after, plan.dr_after>>
     /\ RootOf(out.value) = target

\* C1 witness: a plan of at least two symbols interspersed with spread 2 into
\* a text of at least two characters.
InterspersedPlanApplied ==
  /\ pc = "applied"
  /\ FromAttunement
  /\ principle = DefaultPrinciple
  /\ plan.method = "intersperse"
  /\ spread = Some(2)
  /\ Len(text) >= 2
  /\ InsertedCount(plan.steps) >= 2

\* C2 (as claimed): every EditPlan optimize_substitution returns has dr_after
\* equal to the target, and applying it gives a text with that digital root
\* (stated here already under zero-to-nine normalisation).
EditPlanReachesTarget ==
  (/\ FromSubstitution
   /\ principle.normalize_zero_to_nine
   /\ plan.kind = "EditPlan")
  => /\ plan.dr_after = target
     /\ (pc = "applied" => RootOf(out.value) = target)

\* The premise of C3 as claimed: some allowed symbol has an energy that is not
\* congruent to 0 mod 9.
HasNonzeroResidueSymbol == \E e \in AllowedEnergies : e % 9 # 0

\* The premise of C3 as amended: some allowed symbol has an energy that is not
\* a multiple of 3, so that its residue generates all of 0..8.
HasGeneratorSymbol == \E e \in AllowedEnergies : e % 3 # 0

OneEditPerPosition ==
  BuiltByDP
  => \A i, j \in 1..Len(plan.ops) : i # j => plan.ops[i].pos # plan.ops[j].pos

\* The plans C5 is about: deletions and substitutions only, at pairwise
\* distinct positions inside the text.
DistinctInRangeEdits(ops, n) ==
  /\ ops # <<>>
  /\ \A i \in 1..Len(ops) :
       /\ ops[i].kind \in {"del", "sub"}
       /\ 0 <= ops[i].pos /\ ops[i].pos < n
       /\ \A j \in 1..Len(ops) : i # j => ops[i].pos # ops[j].pos

\* The text C5 expects: the characters at the substituted original positions
\* replaced, then the characters at the deleted original positions removed.
RECURSIVE EditedFrom(_, _, _)
EditedFrom(txt, ops, i) ==
  IF i > Len(txt) THEN <<>>
  ELSE LET here == {k \in 1..Len(ops) : ops[k].pos = i - 1}
           op == ops[CHOOSE k \in here : TRUE]
       IN (IF here = {} THEN <<txt[i]>>
           ELSE IF op.kind = "del" THEN <<>>
           ELSE <<op.ch[1]>>)
          \o EditedFrom(txt, ops, i + 1)

\* C5 (as claimed): for deletions and substitutions at pairwise distinct
\* in-range original positions, apply_edit_plan gives the original text with
\* the deleted positions removed and the substituted positions replaced.
EditsApplyAtOriginalPositions ==
  (Applied /\ plan.kind = "EditPlan" /\ DistinctInRangeEdits(plan.ops, Len(text)))
  => out.value = EditedFrom(text, plan.ops, 1)

\* The residues of the usable (non-zero-energy) allowed symbols.
AllowedResidues == {e % 9 : e \in AllowedEnergies \ {0}}

\* The residues that sums of exactly k residues of R reach.
RECURSIVE ReachableWith(_, _)
ReachableWith(k, R) ==
  IF k = 0 THEN {0}
  ELSE {(x + r) % 9 : x \in ReachableWith(k - 1, R), r \in R}

\* The length of a shortest sequence over R that sums to d mod 9 (-1: none).
\* A shortest sequence never passes a residue twice, so 9 lengths suffice.
ShortestLength(R, d) ==
  LET ks == {k \in 0..9 : d \in ReachableWith(k, R)}
  IN IF ks = {} THEN -1 ELSE CHOOSE k \in ks : \A j \in ks : k <= j

\* C6: the number of symbols a plan of optimize_attunement inserts is the
\* length of the shortest sequence of allowed non-zero-energy symbols whose
\* energies sum to requiredDelta mod 9.
PlanInsertsFewest ==
  (FromAttunement /\ plan.kind = "Plan")
  => InsertedCount(plan.steps) = ShortestLength(AllowedResidues, RequiredDelta)

\* C6 witness: a plan of three or more symbols, of two kinds.
LongMixedPlan ==
  /\ pc = "planned"
  /\ FromAttunement
  /\ plan.kind = "Plan"
  /\ Len(plan.steps) >= 2
  /\ InsertedCount(plan.steps) >= 3

\* The deltas of the options the edit planner offers at 1-based position i.
OptionDeltas(i) ==
  LET opts == pos_options(text[i], principle, call.subs, call.allow_delete)
  IN {opts[k][1] : k \in 1..Len(opts)}

\* One more position: every reached pair <<residue, edits>> is kept (position
\* i unedited) or extended by one of the options of position i.
ReachedStep(prev, i) ==
  prev \cup {<<(p[1] + d) % 9, p[2] + 1>> : p \in prev, d \in OptionDeltas(i)}

\* The pairs <<residue, k>> reached by k edits at k distinct positions among
\* the first i, each edit one of its position's options.
RECURSIVE ReachedWith(_)
ReachedWith(i) ==
  IF i = 0 THEN {<<0, 0>>} ELSE ReachedStep(ReachedWith(i - 1), i)

\* The optimum: the fewest edits, at most max_edits, that reach d (-1: none).
OptimalEdits(d, max_edits) ==
  LET ks == {p[2] : p \in {q \in ReachedWith(Len(text)) :
                                 q[1] = d /\ q[2] <= max_edits}}
  IN IF ks = {} THEN -1 ELSE CHOOSE k \in ks : \A j \in ks : k <= j

\* C7: a plan built by the dynamic program has no more operations than the
\* optimum within max_edits, and exactly one when a single option at some
\* position has the required delta.
EditPlanWithinOptimum ==
  BuiltByDP
  => /\ LET optimum == OptimalEdits(RequiredDelta, call.max_edits)
        IN optimum >= 0 /\ Len(plan.ops) <= optimum
     /\ (\E i \in 1..Len(text) : RequiredDelta \in OptionDeltas(i))
        => Len(plan.ops) = 1

\* C7 witness: a plan of two operations where two are needed.
TwoEditsNeeded ==
  /\ pc = "planned"
  /\ BuiltByDP
  /\ Len(plan.ops) = 2
  /\ OptimalEdits(RequiredDelta, call.max_edits) = 2

PlanIsEmptyAndUnchanged ==
  /\ plan.kind \in {"Plan", "EditPlan"}
  /\ plan.kind = "Plan" => plan.steps = <<>>
  /\ plan.kind = "EditPlan" => plan.ops = <<>>
  /\ plan.total_before = TotalOf(text)
  /\ plan.total_after = TotalOf(text)
  /\ plan.dr_before = RootOf(text)
  /\ plan.dr_after = RootOf(text)

\* C8: when the digital root of the text already is the target, both planners
\* return an empty plan with the totals unchanged, whatever the allowed
\* symbols and the catalog, and both appliers return the text unchanged.
AtTargetNothingChanges ==
  (Planned /\ RootOf(text) = target)
  => /\ PlanIsEmptyAndUnchanged
     /\ pc = "applied" => out = Returned(text)

\* C8 witness: at the target already, called with symbols that are all
\* whitespace and a method apply_plan does not know, and applied.
AtTargetApplied ==
  /\ pc = "applied"
  /\ RootOf(text) = target
  /\ FromAttunement
  /\ call.allowed_symbols = <<" ">>
  /\ plan.method = "replace"
  /\ text # <<>>

\* The nominal residue delta of a substitute or delete operation.
OpDelta(op) ==
  IF op.kind = "sub"
  THEN char_energy(op.ch[1], principle) - char_energy(text[op.pos + 1], principle)
  ELSE -char_energy(text[op.pos + 1], principle)

RECURSIVE OpsDelta(_)
OpsDelta(ops) == IF ops = <<>> THEN 0 ELSE OpDelta(Head(ops)) + OpsDelta(Tail(ops))

\* C9: the nominal deltas of the chosen steps sum to the required gap mod 9:
\* count times energy over the steps of an insertion plan, and the energy
\* changes of the substitutions and deletions of an edit plan.
ChosenDeltasCloseGap ==
  /\ (FromAttunement /\ plan.kind = "Plan")
     => StepsEnergy(plan.steps) % 9 = (target - plan.total_before) % 9
  /\ (FromSubstitution /\ plan.kind = "EditPlan" /\ NoInsert(plan.ops))
     => OpsDelta(plan.ops) % 9 = (target - plan.total_before) % 9

\* C9 witness: an edit plan of a deletion and a substitution.
MixedEditPlan ==
  /\ pc = "planned"
  /\ BuiltByDP
  /\ \E i, j \in 1..Len(plan.ops) :
       plan.ops[i].kind = "del" /\ plan.ops[j].kind = "sub"

\* No two operations of the same kind share a position.
NoSameKindSamePos(ops) ==
  \A i, j \in 1..Len(ops) :
    (i # j /\ ops[i].kind = ops[j].kind) => ops[i].pos # ops[j].pos

\* C10: exchanging operations in the plan's list does not change what
\* apply_edit_plan returns, when no two operations of the same kind share a
\* position (a deletion and an insertion never do).
ReorderingKeepsResult ==
  [][(pc' = "reapplied" /\ NoSameKindSamePos(plan.ops)) => out' = out]_vars

\* C10 witness: a plan of a deletion, an insertion and a substitution inside
\* the text, applied again after a reordering.
ReorderedPlanApplied ==
  /\ pc = "reapplied"
  /\ NoSameKindSamePos(plan.ops)
  /\ out # Returned(text)
  /\ \E i, j \in 1..Len(plan.ops) :
       /\ plan.ops[i].kind = "del" /\ plan.ops[j].kind = "ins"
       /\ plan.ops[i].pos \in 0..(Len(text) - 1)
       /\ plan.ops[j].pos \in 0..(Len(text) - 1)
       /\ plan.ops[i].pos > plan.ops[j].pos

\* C11: for a target outside 1..9 both planners raise and return no plan,
\* whatever the text and the other arguments, also when the digital root of
\* the text equals that target.
OutOfRangeTargetRaises ==
  (pc = "planned" /\ target \notin Targets)
  => plan = Raised("Target energy must be 1..9")

\* C11 witness: target 0 for a text of digital root 0 (no zero-to-nine
\* normalisation), where the early exit would have returned an empty plan.
OutOfRangeTargetAtRoot ==
  /\ pc = "planned"
  /\ target = 0
  /\ RootOf(text) = 0
  /\ plan.kind = "raised"

AttunementReturned == pc = "planned" /\ call.fn = "optimize_attunement"

AllowedAllNines == \A e \in AllowedEnergies : e = 9

\* C12: if every allowed symbol has energy 9, optimize_attunement raises and
\* returns no plan whenever requiredDelta is not 0.
OnlyNinesRaises ==
  (AttunementReturned /\ AllowedAllNines /\ RequiredDelta # 0)
  => plan.kind = "raised"

\* C12 witness: two allowed symbols, both of energy 9, and a gap to close.
OnlyNinesRaised ==
  /\ pc = "planned"
  /\ FromAttunement
  /\ Len(call.allowed_symbols) = 2
  /\ AllowedAllNines
  /\ RequiredDelta # 0
  /\ plan = Raised("No feasible combination to reach target with given symbols.")

HasNonzeroEnergySymbol == \E e \in AllowedEnergies : e # 0

IndexOf(symbols, sym) ==
  CHOOSE i \in 1..Len(symbols) :
    symbols[i] = sym /\ \A j \in 1..(i - 1) : symbols[j] # sym

\* The path the search returns for the call that was made.
PathOfCall ==
  minimal_residue_combo(RequiredDelta, allowed_pairs(EffectiveSymbols, principle),
                        call.max_steps)

\* C20: the steps of a returned plan are (symbol, count) pairs in the order
\* of the allowed string, every symbol one of the allowed ones with non-zero
\* energy, every count at least 1, and the counts sum to the length of the
\* path of the search.
StepsInAllowedOrder ==
  (AttunementReturned /\ plan.kind = "Plan" /\ RootOf(text) # target)
  => /\ \A k \in 1..Len(plan.steps) :
          /\ plan.steps[k][2] >= 1
          /\ \E i \in 1..Len(EffectiveSymbols) : EffectiveSymbols[i] = plan.steps[k][1]
          /\ char_energy(plan.steps[k][1], principle) # 0
     /\ \A k, l \in 1..Len(plan.steps) :
          k < l => IndexOf(EffectiveSymbols, plan.steps[k][1])
                     < IndexOf(EffectiveSymbols, plan.steps[l][1])
     /\ PathOfCall # None
     /\ InsertedCount(plan.steps) = Len(PathOfCall[1])

\* C20 witness: a plan of two steps, one of them with count 2 or more, from
\* symbols the caller gave.
TwoStepsInAllowedOrder ==
  /\ pc = "planned"
  /\ FromAttunement
  /\ plan.kind = "Plan"
  /\ call.allowed_symbols # <<>>
  /\ Len(plan.steps) = 2
  /\ \E k \in 1..2 : plan.steps[k][2] >= 2

\* optimize_substitution has returned or raised, and nothing was applied yet.
SubstitutionReturned == pc = "planned" /\ call.fn = "optimize_substitution"

\* Some choice of at most max_edits distinct positions, one offered option
\* each, closes requiredDelta: what the dynamic program searches for.
ReachableByEdits == OptimalEdits(RequiredDelta, call.max_edits) >= 0

\* What optimize_attunement answers for the fallback's arguments.
AppendPlanOfFallback ==
  optimize_attunement(text, target, principle, call.allowed_inserts, "append",
                      DefaultMaxSteps)

\* C14: off target, when the edits cannot close requiredDelta within
\* max_edits the call raises if allowed_inserts is absent or empty, and
\* otherwise returns the steps of optimize_attunement as insert operations at
\* position len(text), or that planner's error; when the edits can close it
\* the plan has no insert operation.
FallbackOnlyWhenUnreached ==
  (SubstitutionReturned /\ target \in Targets /\ RootOf(text) # target)
  => IF ReachableByEdits
     THEN plan.kind = "EditPlan" /\ NoInsert(plan.ops)
     ELSE IF call.allowed_inserts = <<>>
     THEN plan = Raised("No feasible substitution/deletion plan to reach target.")
     ELSE IF AppendPlanOfFallback.kind = "raised"
     THEN plan = AppendPlanOfFallback
     ELSE /\ plan.kind = "EditPlan"
          /\ Len(plan.ops) = Len(AppendPlanOfFallback.steps)
          /\ \A k \in 1..Len(plan.ops) :
               plan.ops[k] = EditOp("ins", Len(text),
                                    Some(AppendPlanOfFallback.steps[k][1]),
                                    AppendPlanOfFallback.steps[k][2])

\* C14 witness: a fallback plan of two insert operations for a non-empty text.
FallbackPlanReturned ==
  /\ SubstitutionReturned
  /\ ~ReachableByEdits
  /\ text # <<>>
  /\ plan.kind = "EditPlan"
  /\ Len(plan.ops) = 2
  /\ \A k \in 1..2 : plan.ops[k].kind = "ins"

\* The edits a plan spends: one per substitution or deletion, count per
\* insertion.
RECURSIVE EditsSpent(_)
EditsSpent(ops) ==
  IF ops = <<>> THEN 0
  ELSE (IF Head(ops).kind = "ins" THEN Head(ops).count ELSE 1) + EditsSpent(Tail(ops))

\* C16 (as claimed): every EditPlan optimize_substitution returns spends at
\* most max_edits edits, insertions of the fallback included.
EditPlanWithinMaxEdits ==
  (SubstitutionReturned /\ plan.kind = "EditPlan")
  => EditsSpent(plan.ops) <= call.max_edits

\* An operation whose position is out of range for a text of length n.
OutOfRange(op, n) ==
  IF op.kind = "ins" THEN op.pos < 0 \/ op.pos > n
  ELSE op.pos < 0 \/ op.pos >= n

\* C15 (as claimed): apply_edit_plan given a plan with an operation whose
\* position is out of range for the text raises instead of returning a text.
OutOfRangeOperationRaises ==
  (/\ Applied
   /\ plan.kind = "EditPlan"
   /\ \E k \in 1..Len(plan.ops) : OutOfRange(plan.ops[k], Len(text)))
  => out.kind = "raised"

\* C18: for n >= 0 with zero_to_nine enabled, digital_root(n) is in 1..9, is
\* congruent to n modulo 9, is 9 for 0, and is its own digital root.
DigitalRootIsResidueInOneToNine ==
  (pc = "returned" /\ call.fn = "digital_root" /\ call.n >= 0 /\ call.zero_to_nine)
  => /\ out.value \in 1..9
     /\ out.value % 9 = call.n % 9
     /\ call.n = 0 => out.value = 9
     /\ digital_root(out.value, TRUE) = out.value

\* C18 witness: a multiple of 9 above 9.
DigitalRootOfMultipleOfNine ==
  /\ pc = "returned"
  /\ call.fn = "digital_root"
  /\ call.zero_to_nine
  /\ call.n = 27
  /\ out.value = 9

\* C19 (as claimed): char_energy returns an integer in 0..9 for every symbol
\* and principle, 0 for whitespace, and under the default configuration a
\* value in 1..9 for every other symbol, for the letters A..Z of either case
\* the digital root of the alphabet position.
CharEnergyInRange ==
  (pc = "returned" /\ call.fn = "char_energy")
  => /\ out.kind = "returned"
     /\ out.value \in 0..9
     /\ isspace(call.ch) => out.value = 0
     /\ (principle = DefaultPrinciple /\ ~isspace(call.ch)) => out.value \in 1..9
     /\ (principle = DefaultPrinciple /\ ord(upper(call.ch)) \in 65..90)
        => out.value = digital_root(ord(upper(call.ch)) - 64, TRUE)

\* The r-th of the flattened symbols of the steps, in step order: the symbol
\* of the first step up to which the counts sum to r or more.
SymbolAt(steps, r) ==
  LET k == CHOOSE k \in 1..Len(steps) :
             /\ InsertedCount(SubSeq(steps, 1, k)) >= r
             /\ InsertedCount(SubSeq(steps, 1, k - 1)) < r
  IN steps[k][1]

FlatSymbols(steps) == [r \in 1..InsertedCount(steps) |-> SymbolAt(steps, r)]

\* interval = spread if given and non-zero, else max(1, len(text) div (n+1))
IntervalFor(spr, len, n) ==
  IF spr # None /\ spr[1] # 0 THEN spr[1]
  ELSE IF len \div (n + 1) >= 1 THEN len \div (n + 1) ELSE 1

\* The text with the r-th symbol behind the original character number
\* r * |interval|, for as many symbols as there are such characters, and the
\* other symbols behind the last character.
Interspersed(txt, syms, interval) ==
  LET a == IF interval < 0 THEN -interval ELSE interval
      m == Len(txt)
      n == Len(syms)
      placed == IF m \div a < n THEN m \div a ELSE n
      sym_pos(r) == IF r <= placed THEN r * a + r ELSE m + r
      inside(i) == {r \in 1..n : sym_pos(r) = i}
      before(i) == Cardinality({r \in 1..n : sym_pos(r) < i})
  IN [i \in 1..(m + n) |->
        IF inside(i) # {} THEN syms[CHOOSE r \in inside(i) : TRUE]
        ELSE txt[i - before(i)]]

\* C21: apply_plan with a non-empty plan returns the text followed by the
\* flattened symbols (append), the flattened symbols followed by the text
\* (prepend), or, for intersperse on a non-empty text, the text with the next
\* symbol behind every interval-th original character and the symbols not
\* placed that way behind the last character; exactly n symbols are added.
ApplyPlanPlacesSymbols ==
  (/\ pc = "applied"
   /\ FromAttunement
   /\ plan.steps # <<>>
   /\ plan.method \in SupportedMethods)
  => LET syms == FlatSymbols(plan.steps) IN
     /\ out.kind = "returned"
     /\ Len(out.value) = Len(text) + InsertedCount(plan.steps)
     /\ plan.method = "append" => out.value = text \o syms
     /\ plan.method = "prepend" => out.value = syms \o text
     /\ (plan.method = "intersperse" /\ text # <<>>)
        => out.value = Interspersed(text, syms,
                                    IntervalFor(spread, Len(text), Len(syms)))

\* C21 witness: two different symbols interspersed with spread 2 into a text
\* of three characters: one is placed behind the second character, the other
\* behind the last.
InterspersedWithRemainder ==
  /\ pc = "applied"
  /\ FromAttunement
  /\ plan.method = "intersperse"
  /\ spread = Some(2)
  /\ Len(text) = 3
  /\ Len(plan.steps) = 2
  /\ out.kind = "returned"
  /\ out.value[3] = plan.steps[1][1]
  /\ out.value[Len(out.value)] = plan.steps[2][1]

\* The frame runs return what the planners and the appliers return.
FrameRunsAgree ==
  /\ (Planned /\ call.fn = "optimize_attunement")
     => plan = optimize_attunement(text, target, principle, call.allowed_symbols,
                                   call.method, call.max_steps)
  /\ (Planned /\ call.fn = "optimize_substitution")
     => plan = optimize_substitution(text, target, principle, call.subs,
                                     call.allow_delete, call.allowed_inserts,
                                     call.max_edits)
  /\ (pc = "applied" /\ plan.kind = "Plan") => out = apply_plan(text, plan, spread)
  /\ (pc = "applied" /\ plan.kind = "EditPlan")
     => out = Returned(apply_edit_plan(text, plan.ops))

\* C22: a planner call leaves the text, the target, the principle and the
\* other arguments (allowed symbols, catalog, flags, budgets) as they were,
\* and an applier call leaves the text and the plan (its steps or operations,
\* their order and the totals) as they were.
CallsLeaveInputsUnchanged ==
  [][/\ pc' = "planned"
        => (text' = text /\ target' = target /\ principle' = principle /\ call' = call)
     /\ pc' = "applied"
        => (text' = text /\ plan' = plan /\ principle' = principle /\ call' = call)]_vars

\* C22 witness: an edit plan of a deletion and a substitution, made with a
\* catalog and applied, gives a text other than the input text.
EditPlanAppliedOnObjects ==
  /\ pc = "applied"
  /\ call.fn = "optimize_substitution"
  /\ call.subs # <<>>
  /\ plan.kind = "EditPlan"
  /\ \E i, j \in 1..Len(plan.ops) :
       plan.ops[i].kind = "del" /\ plan.ops[j].kind = "sub"
  /\ out.value # text

\* The stepwise runs end with what the planners return.
StepsRunsAgree ==
  pc = "planned"
  => plan = IF call.fn = "optimize_attunement"
            THEN optimize_attunement(text, target, principle, call.allowed_symbols,
                                     call.method, call.max_steps)
            ELSE optimize_substitution(text, target, principle, call.subs,
                                       call.allow_delete, call.allowed_inserts,
                                       call.max_edits)

NoRepeats(log) == \A i, j \in 1..Len(log) : i # j => log[i] # log[j]

\* The search enqueues residues of 0..8, none twice; the dynamic program has
\* made at most one pass per text position; the walk has visited no residue
\* twice.
LoopsVisitOnce ==
  /\ (out.kind \in {"running", "finished"} /\ out.loop = "bfs")
     => /\ NoRepeats(out.enqueued)
        /\ \A k \in 1..Len(out.enqueued) : out.enqueued[k] \in 0..8
        /\ Len(out.s.q) <= Len(out.enqueued)
  /\ pc = "dp" => out.i \in 0..Len(text)
  /\ (out.kind \in {"running", "finished"} /\ out.loop = "walk")
     => /\ NoRepeats(out.visited)
        /\ out.passes = Len(text)

\* A call that has not ended can take its next step: the walk always finds
\* the entry of the residue it stands on.
CanStep ==
  (pc = "walk" /\ out.cur # 0)
  => /\ out.cur \in DOMAIN out.best.val
     /\ out.best.val[out.cur][2] \in DOMAIN out.best.val

\* The steps a call has left at most: 0 when it has ended; in the search two
\* for every residue not yet enqueued and one for every residue in the queue;
\* in the walk one for every residue not yet visited; in the dynamic program
\* one for every position not yet passed, before what the search or the walk
\* may take.
StepsLeft ==
  CASE pc = "planned" -> 0
    [] pc = "walk" -> 10 - Len(out.visited)
    [] pc = "bfs" -> 1 + 2 * (9 - Len(out.enqueued)) + Len(out.s.q)
    [] pc = "dp" -> 30 + (Len(text) - out.i)
    [] pc = "start" -> 31 + Len(text)

\* C23: every planner call ends, with a plan or an error, for every input
\* and budget: the search enqueues each of the 9 residues at most once, the
\* dynamic program makes one pass per text position, and the walk along the
\* backpointers reaches residue 0 without visiting a residue twice; so every
\* step of a call leaves fewer steps to take, and none when it has ended.
PlannersTerminate ==
  /\ [](LoopsVisitOnce /\ CanStep /\ StepsLeft >= 0)
  /\ [][StepsLeft' < StepsLeft]_vars

\* C23 witness: a search that emptied its queue after enqueueing three
\* residues, under the default budget, and ended with the error.
SearchRanQueueEmpty ==
  /\ pc = "planned"
  /\ out.kind = "finished"
  /\ out.loop = "bfs"
  /\ out.max_steps = DefaultMaxSteps
  /\ out.s.q = <<>>
  /\ Len(out.enqueued) = 3
  /\ plan.kind = "raised"

\* What a call returns when it runs alone.
AloneResult(c) ==
  IF c.fn = "optimize_attunement"
  THEN optimize_attunement(text, target, principle, c.allowed_symbols, c.method,
                           c.max_steps)
  ELSE optimize_substitution(text, target, principle, c.subs, c.allow_delete,
                             c.allowed_inserts, c.max_edits)

\* C24: two planner calls whose steps are interleaved in any order, on a
\* shared Principle that is not modified, return the plans they return when
\* run alone, and no table, queue or list of operations one call reads or
\* writes is read or written by the other.
InterleavedCallsAreIndependent ==
  /\ pc \in {"running", "planned"} => out.touched[1] \cap out.touched[2] = {}
  /\ pc = "planned" => \A k \in 1..2 : plan[k] = AloneResult(call[k])

\* C24 witness: a search and a dynamic program that took steps while the
\* other was inside its loop, both ended with a non-empty plan.
InterleavedCallsEnded ==
  /\ pc = "planned"
  /\ out.overlap
  /\ call[1].fn = "optimize_attunement"
  /\ call[2].fn = "optimize_substitution"
  /\ plan[1].kind = "Plan" /\ plan[1].steps # <<>>
  /\ plan[2].kind = "EditPlan" /\ plan[2].ops # <<>>
  /\ out.touched[1] # {} /\ out.touched[2] # {}

\* The catalog replacements of a character, and the delta of a replacement.
CatalogOf(ch) == IF ch \in DOMAIN call.subs THEN call.subs[ch] ELSE <<>>
DeltaOf(ch, repl) == (char_energy(repl, principle) - char_energy(ch, principle)) % 9
HasCaseFlip(ch) == isalpha(ch) /\ swapcase(ch) # ch

\* The places in the catalog of ch of the replacements with delta d.
PlacesWithDelta(ch, d) ==
  {j \in 1..Len(CatalogOf(ch)) : DeltaOf(ch, CatalogOf(ch)[j]) = d}

FirstPlace(places) == CHOOSE j \in places : \A l \in places : j <= l

Substitutions(opts) == {k \in 1..Len(opts) : opts[k][2] # None}
Deletions(opts) == {k \in 1..Len(opts) : opts[k][2] = None}

\* The option list opts is the one described for the character ch.
OptionsAsDescribed(ch, opts) ==
  /\ \A k \in 1..Len(opts) : opts[k][1] \in 1..8
  /\ \A k, l \in Substitutions(opts) : k # l => opts[k][1] # opts[l][1]
  /\ \A k \in Substitutions(opts) :
       IF PlacesWithDelta(ch, opts[k][1]) # {}
       THEN opts[k][2] = Some(CatalogOf(ch)[FirstPlace(PlacesWithDelta(ch, opts[k][1]))])
       ELSE /\ HasCaseFlip(ch)
            /\ opts[k][2] = Some(swapcase(ch))
            /\ opts[k][1] = DeltaOf(ch, swapcase(ch))
  /\ \A j \in 1..Len(CatalogOf(ch)) :
       DeltaOf(ch, CatalogOf(ch)[j]) # 0
       => \E k \in Substitutions(opts) : opts[k][1] = DeltaOf(ch, CatalogOf(ch)[j])
  /\ (HasCaseFlip(ch) /\ DeltaOf(ch, swapcase(ch)) # 0)
     => \E k \in Substitutions(opts) : opts[k][1] = DeltaOf(ch, swapcase(ch))
  /\ Deletions(opts) = IF call.allow_delete /\ char_energy(ch, principle) % 9 # 0
                       THEN {Len(opts)} ELSE {}
  /\ \A k \in Deletions(opts) : opts[k][1] = (-char_energy(ch, principle)) % 9

\* C25: at every text position the option list has no zero-delta option;
\* one substitution per non-zero delta of a catalog replacement, the first
\* in catalog order with that delta; the case change only when its delta is
\* non-zero and no catalog replacement has it; and a deletion with delta
\* (-energy) mod 9, after the substitutions, exactly when allow_delete is set
\* and the energy of the character is not a multiple of 9.
OptionListAsDescribed ==
  pc = "dp"
  => /\ Len(out.pos_deltas) = Len(text)
     /\ \A i \in 1..Len(text) : OptionsAsDescribed(text[i], out.pos_deltas[i])

\* C25 witness: under letter_mode codepoint, with deletion allowed, a lower
\* case letter whose case change is covered by a catalog replacement, next
\* to an upper case letter whose case change is offered, next to a deletion.
OptionsWithCoveredCaseFlip ==
  /\ pc = "dp"
  /\ call.allow_delete
  /\ text = <<"a", "A">>
  /\ out.pos_deltas[1] = <<<<4, Some(",")>>, <<1, Some("b")>>, <<2, None>>>>
  /\ \E k \in 1..Len(out.pos_deltas[2]) : out.pos_deltas[2][k][2] = Some("a")
  /\ Len(out.pos_deltas[2]) = 3

\* The transitions of one pass of the dynamic program from the table best
\* over the options opts of the position: <<j, k>> takes the k-th option
\* from the j-th residue of the table, in the order of best.items().
PassTransitions(best, opts) == (1..Len(best.keys)) \X (1..Len(opts))
TransitionTo(best, opts, t) == (best.keys[t[1]] + opts[t[2]][1]) % 9
TransitionCount(best, t) == best.val[best.keys[t[1]]][1] + 1

\* The transitions to residue r within the budget that improve on the entry
\* r has in best.
ImprovingTo(best, opts, r, max_edits) ==
  {t \in PassTransitions(best, opts) :
     /\ TransitionTo(best, opts, t) = r
     /\ TransitionCount(best, t) <= max_edits
     /\ (r \in DOMAIN best.val => TransitionCount(best, t) < best.val[r][1])}

Fewest(best, ts) ==
  {t \in ts : \A u \in ts : TransitionCount(best, t) <= TransitionCount(best, u)}

\* The loops discover <<j, k>> before <<j2, k2>>.
DiscoveredBefore(t, u) == t[1] < u[1] \/ (t[1] = u[1] /\ t[2] <= u[2])

EntryOf(best, opts, i, t) ==
  <<TransitionCount(best, t), best.keys[t[1]], <<i, opts[t[2]][1], opts[t[2]][2]>>>>

\* An entry is replaced only by a strictly smaller count within the budget,
\* and no count grows.
PassOnlyImproves(best, best2, max_edits) ==
  /\ \A r \in DOMAIN best.val :
       /\ r \in DOMAIN best2.val
       /\ best2.val[r][1] <= best.val[r][1]
       /\ best2.val[r] # best.val[r] => best2.val[r][1] < best.val[r][1]
  /\ \A r \in DOMAIN best2.val :
       (r \notin DOMAIN best.val \/ best2.val[r] # best.val[r])
       => best2.val[r][1] <= max_edits

\* Residue r keeps its entry when no transition improves on it, and gets the
\* entry of the transition `kept` otherwise.
EntryAfterPass(best, best2, opts, i, r, ts, kept) ==
  IF ts = {}
  THEN IF r \in DOMAIN best.val
       THEN r \in DOMAIN best2.val /\ best2.val[r] = best.val[r]
       ELSE r \notin DOMAIN best2.val
  ELSE /\ r \in DOMAIN best2.val
       /\ \E t \in Fewest(best, ts) :
            /\ best2.val[r] = EntryOf(best, opts, i, t)
            /\ \A u \in Fewest(best, ts) : kept[t, u]

\* Of the transitions with the fewest edits the one discovered first is kept.
PassKeepsFirstDiscovered(best, best2, opts, i, max_edits) ==
  \A r \in 0..8 :
    EntryAfterPass(best, best2, opts, i, r, ImprovingTo(best, opts, r, max_edits),
                   [t, u \in PassTransitions(best, opts) |-> DiscoveredBefore(t, u)])

\* Of the transitions with the fewest edits the one of the earliest option is
\* kept.
PassKeepsEarliestOption(best, best2, opts, i, max_edits) ==
  \A r \in 0..8 :
    EntryAfterPass(best, best2, opts, i, r, ImprovingTo(best, opts, r, max_edits),
                   [t, u \in PassTransitions(best, opts) |-> t[2] <= u[2]])

\* C26 (as claimed): in every pass of the dynamic program an entry is
\* replaced only by a transition with a strictly smaller count within
\* max_edits, no count grows, and of the transitions reaching a residue with
\* the same minimal count the one kept is at the lowest position and, at that
\* position, of the earliest option.
TiesKeepEarliestOption ==
  [][(pc = "dp" /\ pc' = "dp")
     => /\ PassOnlyImproves(out.best, out'.best, call.max_edits)
        /\ PassKeepsEarliestOption(out.best, out'.best, out.pos_deltas[out.i + 1],
                                   out.i, call.max_edits)]_vars

\* C26 (amended): in every pass of the dynamic program an entry is replaced
\* only by a transition with a strictly smaller count within max_edits, no
\* count grows, and of the transitions reaching a residue with the same
\* minimal count the one kept is the first discovered: at the lowest
\* position, there from the residue that comes first in the table, and from
\* that residue by the earliest option.
TiesKeepFirstDiscovered ==
  [][(pc = "dp" /\ pc' = "dp")
     => /\ PassOnlyImproves(out.best, out'.best, call.max_edits)
        /\ PassKeepsFirstDiscovered(out.best, out'.best, out.pos_deltas[out.i + 1],
                                    out.i, call.max_edits)]_vars

\* C26 witness: after the second pass over "aa" residue 3 is reached with two
\* edits through the second option of position 1, taken from residue 1,
\* though the first option taken from residue 2 reaches it with two edits
\* as well.
TieKeptBySourceResidue ==
  /\ pc = "dp"
  /\ text = <<"a", "a">>
  /\ out.i = 2
  /\ out.pos_deltas[2] = <<<<1, Some("b")>>, <<2, Some("c")>>>>
  /\ 3 \in DOMAIN out.best.val
  /\ out.best.val[3] = <<2, 1, <<1, 2, Some("c")>>>>
  /\ out.best.val[2][1] = 1

\* The plan is the one the insertion fallback of optimize_substitution made.
FromFallback ==
  /\ FromSubstitution
  /\ plan.kind = "EditPlan"
  /\ plan.method = "edit"
  /\ ~NoInsert(plan.ops)

\* C27: an EditPlan of the insertion fallback, applied with apply_edit_plan,
\* gives the text apply_plan gives for the insertion planner's append plan:
\* the original text followed by the inserted symbols in step order, also
\* for a plan of two or more different symbols.
FallbackAppliesAsAppend ==
  (pc = "applied" /\ FromFallback)
  => /\ out = apply_plan(text, AppendPlanOfFallback, None)
     /\ out.value = text \o flatten_steps(AppendPlanOfFallback.steps)

\* The table `best` after the last pass of the dynamic program of the call.
FinalTable ==
  dp_positions(best_init,
               pos_deltas_of(text, principle, call.subs, call.allow_delete),
               0, call.max_edits)

\* The dynamic program of the call has run: the call passed the early exits.
RanDP == FromSubstitution /\ target_in_range(target) /\ RootOf(text) # target

BackpointersConsistent(best) ==
  \A r \in DOMAIN best.val \ {0} :
    /\ best.val[r][2] \in DOMAIN best.val
    /\ best.val[best.val[r][2]][1] = best.val[r][1] - 1

\* C28: after the dynamic program, for every reached residue r other than 0
\* the entry of the previous residue recorded for r has a count exactly one
\* less than the count of r, and the chain walked from requiredDelta has as
\* many operations as the count stored for requiredDelta.
BackpointersMatchCounts ==
  (pc = "planned" /\ RanDP)
  => /\ BackpointersConsistent(FinalTable)
     /\ BuiltByDP => Len(plan.ops) = FinalTable.val[RequiredDelta][1]

\* The residues of the allowed symbols of the call of the search.
SearchResidues == {call.allowed[i][2] % 9 : i \in 1..Len(call.allowed)}

\* The residues that are sums of at most n residues of R.
RECURSIVE SumsOfAtMost(_, _)
SumsOfAtMost(R, n) ==
  IF n = 0 THEN {0}
  ELSE SumsOfAtMost(R, n - 1) \cup {(s + r) % 9 : s \in SumsOfAtMost(R, n - 1), r \in R}

\* The subgroup of the integers mod 9 the residues generate, as described.
SubgroupAsDescribed(R) ==
  IF \E r \in R : r % 3 # 0 THEN 0..8
  ELSE IF \E r \in R : r # 0 THEN {0, 3, 6}
  ELSE {0}

\* The residue the sequence of indices into allowed adds up to.
RECURSIVE ResidueOfSeq(_)
ResidueOfSeq(seq) ==
  IF seq = <<>> THEN 0
  ELSE (call.allowed[Head(seq)][2] + ResidueOfSeq(Tail(seq))) % 9

\* C29: with max_steps >= 8 minimal_residue_combo returns a sequence exactly
\* when delta_res is in the subgroup of the integers mod 9 generated by the
\* allowed residues (0..8, {0, 3, 6} or {0}); a sequence it returns has at
\* most 8 elements and adds up to delta_res; and the result is the one for
\* max_steps = 8.
BudgetOfEightSuffices ==
  (pc = "returned" /\ call.max_steps >= 8)
  => /\ SubgroupAsDescribed(SearchResidues) = SumsOfAtMost(SearchResidues, 9)
     /\ plan # None <=> call.delta_res \in SubgroupAsDescribed(SearchResidues)
     /\ plan # None => /\ Len(plan[1]) <= 8
                       /\ ResidueOfSeq(plan[1]) = call.delta_res
     /\ plan = minimal_residue_combo(call.delta_res, call.allowed, 8)

\* C29 witness: under a budget of 8 the search returns a sequence of 8
\* elements; the allowed residues are a generator and a zero.
EightStepsUnderBudgetEight ==
  /\ pc = "returned"
  /\ call.max_steps = 8
  /\ SearchResidues = {0, 1}
  /\ plan # None
  /\ Len(plan[1]) = 8

\* C30: with normalize_zero_to_nine disabled, the early-exit test of both
\* planners (digital root equals target) holds exactly when requiredDelta is
\* 0, and every plan they return has dr_after equal to the target, also for
\* a text of total energy 0 and target 9.
WithoutNormalisationPlansReachTarget ==
  (pc = "planned" /\ ~principle.normalize_zero_to_nine)
  => /\ (RootOf(text) = target) <=> (RequiredDelta = 0)
     /\ plan.kind \in {"Plan", "EditPlan"} => plan.dr_after = target

====
